---------------------------- MODULE Spec2Model ----------------------------
(***************************************************************************)
(* Campus Life Planner: the reactive task store (scripts/state.js), its    *)
(* persistence layer and import validator (storage.js), the field          *)
(* validators (validators.js) and the UI handlers that feed the store      *)
(* (scripts/ui.js).                                                        *)
(*                                                                         *)
(* Representation.  A JavaScript string is a sequence of one-character     *)
(* strings.  A number is an integer count of hundredths (90 is 9000,       *)
(* 12.5 is 1250).  A timestamp produced by toISOString() is the            *)
(* millisecond instant it renders: the rendering is injective and order    *)
(* preserving for the years 0000-9999.                                     *)
(***************************************************************************)
EXTENDS Integers, Sequences, FiniteSets, TLC

VARIABLES
    tasks,      \* AppState.tasks: the authoritative collection
    settings,   \* AppState.settings
    tags,       \* AppState.tags: the tag vocabulary
    listeners,  \* AppState._listeners: subscribers in registration order
    storage,    \* localStorage: the items clp:tasks, clp:settings, clp:tags
    clock,      \* Date.now(), in milliseconds
    ret,        \* the last operation: its name, arguments, result, outcome
    log,        \* the subscriber invocations made by the last operation
    confirmCallback,  \* ui.js: the callback the confirm dialog holds, or null
    overlayHidden     \* ui.js: the hidden attribute of #confirm-dialog

vars == <<tasks, settings, tags, listeners, storage, clock, ret, log,
          confirmCallback, overlayHidden>>

\* the confirm dialog of the page; the operations of the store and the
\* handlers other than the dialog's own say nothing about it
dialog == <<confirmCallback, overlayHidden>>

(***************************************************************************)
(* Bounds of the model.                                                    *)
(***************************************************************************)
MaxTasks == 2
MaxClock == 1
MaxListeners == 2

(***************************************************************************)
(* Strings.                                                                *)
(***************************************************************************)
Digits == <<"0", "1", "2", "3", "4", "5", "6", "7", "8", "9">>

UpperCase == <<"A", "B", "C", "D", "E", "F", "G", "H", "I", "J", "K", "L", "M",
               "N", "O", "P", "Q", "R", "S", "T", "U", "V", "W", "X", "Y", "Z">>

LowerCase == <<"a", "b", "c", "d", "e", "f", "g", "h", "i", "j", "k", "l", "m",
               "n", "o", "p", "q", "r", "s", "t", "u", "v", "w", "x", "y", "z">>

Range(s) == {s[i] : i \in DOMAIN s}

IsDigit(c) == c \in Range(Digits)

IsLetter(c) == c \in Range(UpperCase) \cup Range(LowerCase)

\* \s of a JavaScript regular expression, and what String.prototype.trim strips
IsSpace(c) == c \in {" ", "\t", "\n", "\r"}

\* a line terminator, which "." does not match
IsLineTerminator(c) == c \in {"\n", "\r"}

DigitVal(c) == (CHOOSE i \in DOMAIN Digits : Digits[i] = c) - 1

DigitChar(n) == Digits[n + 1]

RECURSIVE TrimStart(_)
TrimStart(s) ==
    IF s # <<>> /\ IsSpace(Head(s)) THEN TrimStart(Tail(s)) ELSE s

RECURSIVE TrimEnd(_)
TrimEnd(s) ==
    IF s # <<>> /\ IsSpace(s[Len(s)]) THEN TrimEnd(SubSeq(s, 1, Len(s) - 1)) ELSE s

\* String.prototype.trim
Trim(s) == TrimEnd(TrimStart(s))

\* the value of a run of decimal digits
RECURSIVE DigitsVal(_)
DigitsVal(s) ==
    IF s = <<>> THEN 0 ELSE 10 * DigitsVal(SubSeq(s, 1, Len(s) - 1)) + DigitVal(s[Len(s)])

AllDigits(s) == \A i \in DOMAIN s : IsDigit(s[i])

IndexOf(s, c) ==
    IF c \in Range(s) THEN CHOOSE i \in DOMAIN s : s[i] = c /\ \A j \in 1..(i - 1) : s[j] # c
    ELSE 0

(***************************************************************************)
(* validators.js: PATTERNS and validateField.                              *)
(***************************************************************************)
\* PATTERNS.title: /^\S(?:.*\S)?$/
PatternTitle(s) ==
    /\ s # <<>>
    /\ ~IsSpace(s[1])
    /\ ~IsSpace(s[Len(s)])
    /\ \A i \in DOMAIN s : ~IsLineTerminator(s[i])

\* PATTERNS.numeric: /^(0|[1-9]\d*)(\.\d{1,2})?$/
PatternNumeric(s) ==
    LET dot == IndexOf(s, ".")
        int == IF dot = 0 THEN s ELSE SubSeq(s, 1, dot - 1)
        frac == IF dot = 0 THEN <<>> ELSE SubSeq(s, dot + 1, Len(s))
    IN  /\ int # <<>>
        /\ AllDigits(int)
        /\ (int = <<"0">> \/ int[1] # "0")
        /\ (dot # 0 => Len(frac) \in 1..2 /\ AllDigits(frac))

\* PATTERNS.date: /^\d{4}-(0[1-9]|1[0-2])-(0[1-9]|[12]\d|3[01])$/
PatternDate(s) ==
    /\ Len(s) = 10
    /\ AllDigits(SubSeq(s, 1, 4))
    /\ s[5] = "-"
    /\ \/ s[6] = "0" /\ s[7] \in Range(SubSeq(Digits, 2, 10))
       \/ s[6] = "1" /\ s[7] \in {"0", "1", "2"}
    /\ s[8] = "-"
    /\ \/ s[9] = "0" /\ s[10] \in Range(SubSeq(Digits, 2, 10))
       \/ s[9] \in {"1", "2"} /\ IsDigit(s[10])
       \/ s[9] = "3" /\ s[10] \in {"0", "1"}

\* PATTERNS.tag: /^[A-Za-z]+(?:[ -][A-Za-z]+)*$/
PatternTag(s) ==
    /\ s # <<>>
    /\ IsLetter(s[1])
    /\ IsLetter(s[Len(s)])
    /\ \A i \in DOMAIN s : IsLetter(s[i]) \/ s[i] \in {" ", "-"}
    /\ \A i \in 1..(Len(s) - 1) : ~(s[i] \in {" ", "-"} /\ s[i + 1] \in {" ", "-"})

\* Infinity: larger than every number
Infinity == 2147483647

\* the decimal digits of 2^1024 - 2^970, the least number that a double
\* cannot hold: it and everything above it round to Infinity
MaxFiniteBound ==
    <<"1", "7", "9", "7", "6", "9", "3", "1", "3", "4", "8", "6", "2", "3", "1", "5",
       "8", "0", "7", "9", "3", "7", "2", "8", "9", "7", "1", "4", "0", "5", "3", "0",
       "3", "4", "1", "5", "0", "7", "9", "9", "3", "4", "1", "3", "2", "7", "1", "0",
       "0", "3", "7", "8", "2", "6", "9", "3", "6", "1", "7", "3", "7", "7", "8", "9",
       "8", "0", "4", "4", "4", "9", "6", "8", "2", "9", "2", "7", "6", "4", "7", "5",
       "0", "9", "4", "6", "6", "4", "9", "0", "1", "7", "9", "7", "7", "5", "8", "7",
       "2", "0", "7", "0", "9", "6", "3", "3", "0", "2", "8", "6", "4", "1", "6", "6",
       "9", "2", "8", "8", "7", "9", "1", "0", "9", "4", "6", "5", "5", "5", "5", "4",
       "7", "8", "5", "1", "9", "4", "0", "4", "0", "2", "6", "3", "0", "6", "5", "7",
       "4", "8", "8", "6", "7", "1", "5", "0", "5", "8", "2", "0", "6", "8", "1", "9",
       "0", "8", "9", "0", "2", "0", "0", "0", "7", "0", "8", "3", "8", "3", "6", "7",
       "6", "2", "7", "3", "8", "5", "4", "8", "4", "5", "8", "1", "7", "7", "1", "1",
       "5", "3", "1", "7", "6", "4", "4", "7", "5", "7", "3", "0", "2", "7", "0", "0",
       "6", "9", "8", "5", "5", "5", "7", "1", "3", "6", "6", "9", "5", "9", "6", "2",
       "2", "8", "4", "2", "9", "1", "4", "8", "1", "9", "8", "6", "0", "8", "3", "4",
       "9", "3", "6", "4", "7", "5", "2", "9", "2", "7", "1", "9", "0", "7", "4", "1",
       "6", "8", "4", "4", "4", "3", "6", "5", "5", "1", "0", "7", "0", "4", "3", "4",
       "2", "7", "1", "1", "5", "5", "9", "6", "9", "9", "5", "0", "8", "0", "9", "3",
       "0", "4", "2", "8", "8", "0", "1", "7", "7", "9", "0", "4", "1", "7", "4", "4",
       "9", "7", "7", "9", "2" >>

\* a < b on two runs of digits of the same length
DigitsLess(a, b) ==
    \E i \in DOMAIN a :
        /\ \A j \in 1..(i - 1) : a[j] = b[j]
        /\ DigitVal(a[i]) < DigitVal(b[i])

\* the integer part int (no leading zero) is at or above MaxFiniteBound
BeyondDouble(int) ==
    \/ Len(int) > Len(MaxFiniteBound)
    \/ Len(int) = Len(MaxFiniteBound) /\ ~DigitsLess(int, MaxFiniteBound)

\* parseFloat on a string PatternNumeric accepts, in hundredths
ParseFloat(s) ==
    LET dot == IndexOf(s, ".")
        int == IF dot = 0 THEN s ELSE SubSeq(s, 1, dot - 1)
        frac == IF dot = 0 THEN <<>> ELSE SubSeq(s, dot + 1, Len(s))
    IN  IF BeyondDouble(int) THEN Infinity
        ELSE 100 * DigitsVal(int)
               + (IF Len(frac) = 1 THEN 10 * DigitsVal(frac) ELSE DigitsVal(frac))

IsLeapYear(y) == (y % 4 = 0 /\ y % 100 # 0) \/ y % 400 = 0

DaysInMonth(y, m) ==
    IF m = 2 THEN (IF IsLeapYear(y) THEN 29 ELSE 28)
    ELSE IF m \in {4, 6, 9, 11} THEN 30 ELSE 31

\* new Date(y, m - 1, d) for m in 1..12 and d in 1..31, as the calendar date
\* getFullYear / getMonth + 1 / getDate read back: a year 0..99 is taken as
\* 1900 + y, and a day past the end of the month rolls into the next one
JSDate(y, m, d) ==
    LET yy == IF y \in 0..99 THEN 1900 + y ELSE y
        dim == DaysInMonth(yy, m)
    IN  IF d <= dim THEN [year |-> yy, month |-> m, date |-> d]
        ELSE IF m = 12 THEN [year |-> yy + 1, month |-> 1, date |-> d - dim]
        ELSE [year |-> yy, month |-> m + 1, date |-> d - dim]

\* validateField(field, value).valid ; value || '' is the string itself
validateField(field, value) ==
    CASE field = "title" -> value # <<>> /\ PatternTitle(value)
      [] field = "duration" ->
            value # <<>> /\ PatternNumeric(value) /\ ~(ParseFloat(value) < 0)
      [] field = "date" ->
            /\ value # <<>>
            /\ PatternDate(value)
            /\ LET y == DigitsVal(SubSeq(value, 1, 4))
                   m == DigitsVal(SubSeq(value, 6, 7))
                   d == DigitsVal(SubSeq(value, 9, 10))
                   dateObj == JSDate(y, m, d)
               IN  ~(dateObj.year # y \/ dateObj.month # m \/ dateObj.date # d)
      [] field = "tag" -> value # <<>> /\ PatternTag(value)
      [] OTHER -> TRUE

\* validateForm(data).valid
validateForm(data) ==
    \A field \in {"title", "duration", "date", "tag", "notes"} :
        validateField(field, data[field])

(***************************************************************************)
(* JSON values, as JSON.parse returns them.  t is the typeof class; s the  *)
(* characters of a string; n the value of a number.  The string that       *)
(* toISOString() renders for the instant n is JIso(n).                     *)
(***************************************************************************)
JStr(s) == [t |-> "string", s |-> s, n |-> 0]
JNum(n) == [t |-> "number", s |-> <<>>, n |-> n]
JIso(n) == [t |-> "string", s |-> <<"i", "s", "o">>, n |-> n]
JUndef == [t |-> "undefined", s |-> <<>>, n |-> 0]
JNull == [t |-> "null", s |-> <<>>, n |-> 0]
JTrue == [t |-> "boolean", s |-> <<>>, n |-> 1]

\* ToBoolean(v), as || applies it
Truthy(v) ==
    CASE v.t = "string" -> v.s # <<>>
      [] v.t = "number" -> v.n # 0
      [] v.t \in {"undefined", "null"} -> FALSE
      [] OTHER -> TRUE

IsIso(v) == v.t = "string" /\ v.s = <<"i", "s", "o">>

\* what a method returns for "nothing"
Null == [null |-> TRUE]

(***************************************************************************)
(* storage.js: the localStorage items and their load functions.  An item   *)
(* is absent or holds JSON text, which is modelled by the value it         *)
(* denotes: on the strings, finite numbers, arrays and plain objects of    *)
(* this model JSON.parse(JSON.stringify(v)) is v; Infinity is written as   *)
(* null.                                                                   *)
(***************************************************************************)
DEFAULT_TAGS ==
    << <<"S", "t", "u", "d", "y">>,
       <<"A", "s", "s", "i", "g", "n", "m", "e", "n", "t">>,
       <<"C", "l", "u", "b">>,
       <<"S", "p", "o", "r", "t", "s">>,
       <<"S", "o", "c", "i", "a", "l">>,
       <<"E", "r", "r", "a", "n", "d", "s">>,
       <<"O", "t", "h", "e", "r">> >>

DefaultSettings == [durationUnit |-> "minutes", weeklyCap |-> 0]

NoItem == [present |-> FALSE, json |-> <<>>]

\* localStorage.setItem(key, JSON.stringify(v))
SetItem(v) == [present |-> TRUE, json |-> v]

\* { ...a, ...b }
Spread(a, b) ==
    [k \in DOMAIN a \cup DOMAIN b |-> IF k \in DOMAIN b THEN b[k] ELSE a[k]]

loadTasks(st) == IF st.tasks.present THEN st.tasks.json ELSE <<>>

loadSettings(st) ==
    IF st.settings.present THEN Spread(DefaultSettings, st.settings.json)
    ELSE DefaultSettings

loadTags(st) ==
    IF st.tags.present /\ Len(st.tags.json) > 0 THEN st.tags.json ELSE DEFAULT_TAGS

\* JSON.stringify(tasks), as JSON.parse reads it back: a duration that is
\* not finite is written as null
RECURSIVE Stringified(_)
Stringified(ts) ==
    IF ts = <<>> THEN <<>>
    ELSE <<IF Head(ts).duration = Infinity THEN [Head(ts) EXCEPT !.duration = Null]
           ELSE Head(ts)>> \o Stringified(Tail(ts))

saveTasks(st, ts) == [st EXCEPT !.tasks = SetItem(Stringified(ts))]

saveSettings(st, s) == [st EXCEPT !.settings = SetItem(s)]

saveTags(st, tg) == [st EXCEPT !.tags = SetItem(tg)]

(***************************************************************************)
(* storage.js: validateImport.  The argument is the text of a file: it     *)
(* parses or not, and parses to an array or to something else.  An         *)
(* element of the array is an object with JSON-valued fields, or not an    *)
(* object.                                                                 *)
(***************************************************************************)
ImportIssues(item) ==
    SelectSeq(
        << IF item.id.t # "string" \/ Trim(item.id.s) = <<>> THEN "id" ELSE "",
           IF item.title.t # "string" \/ Trim(item.title.s) = <<>> THEN "title" ELSE "",
           IF item.duration.t # "number" \/ item.duration.n < 0 THEN "duration" ELSE "",
           IF item.tag.t # "string" \/ Trim(item.tag.s) = <<>> THEN "tag" ELSE "",
           IF item.dueDate.t # "string" \/ ~PatternDate(item.dueDate.s)
             THEN "dueDate" ELSE "" >>,
        LAMBDA x : x # "")

\* (item.notes || '').trim() throws on a truthy value that is no string
NotesThrows(item) == Truthy(item.notes) /\ item.notes.t # "string"

NormalizeImport(item, now) ==
    [id |-> item.id.s,
     title |-> Trim(item.title.s),
     dueDate |-> item.dueDate.s,
     duration |-> item.duration.n,
     tag |-> Trim(item.tag.s),
     notes |-> IF Truthy(item.notes) THEN Trim(item.notes.s) ELSE <<>>,
     createdAt |-> IF Truthy(item.createdAt) THEN item.createdAt ELSE JIso(now),
     updatedAt |-> IF Truthy(item.updatedAt) THEN item.updatedAt ELSE JIso(now)]

\* the forEach over the elements, from element i on, with what it has
\* accumulated so far
RECURSIVE ImportLoop(_, _, _, _, _)
ImportLoop(items, i, now, data, errors) ==
    IF i > Len(items) THEN [threw |-> FALSE, valid |-> errors = <<>>,
                            data |-> data, errors |-> errors]
    ELSE LET item == items[i] IN
         IF ~item.isObject
           THEN ImportLoop(items, i + 1, now, data,
                           Append(errors, [item |-> i, issues |-> <<"not an object">>]))
         ELSE IF ImportIssues(item) # <<>>
           THEN ImportLoop(items, i + 1, now, data,
                           Append(errors, [item |-> i, issues |-> ImportIssues(item)]))
         ELSE IF NotesThrows(item)
           THEN [threw |-> TRUE, valid |-> FALSE, data |-> <<>>, errors |-> <<>>]
         ELSE ImportLoop(items, i + 1, now, Append(data, NormalizeImport(item, now)),
                         errors)

validateImport(file, now) ==
    IF ~file.wellFormed
      THEN [threw |-> FALSE, valid |-> FALSE, data |-> <<>>,
            errors |-> <<[item |-> 0, issues |-> <<"invalid JSON">>]>>]
    ELSE IF ~file.isArray
      THEN [threw |-> FALSE, valid |-> FALSE, data |-> <<>>,
            errors |-> <<[item |-> 0, issues |-> <<"not an array">>]>>]
    ELSE ImportLoop(file.items, 1, now, <<>>, <<>>)

(***************************************************************************)
(* state.js: the event system.  A subscriber is named; the subscribers of  *)
(* kind "faulty" throw when invoked, the others return.  A subscriber of   *)
(* kind "closer" holds the function that onChange returned for "audit" and *)
(* calls it when it is invoked.                                            *)
(***************************************************************************)
Subscribers == {"render", "faulty", "audit"}

Throws(fn) == fn = "faulty"

\* the subscribers whose unsubscribe function fn calls when it is invoked
Unsubscribes(fn) == IF fn = "closer" THEN {"audit"} ELSE {}

Snapshot(ts, st, tg) == [tasks |-> ts, settings |-> st, tags |-> tg]

\* the position of the first subscriber that throws, 0 when none does
FirstThrow(ls) ==
    IF \E i \in DOMAIN ls : Throws(ls[i])
      THEN CHOOSE i \in DOMAIN ls : Throws(ls[i]) /\ \A j \in 1..(i - 1) : ~Throws(ls[j])
    ELSE 0

\* how many subscribers _listeners.forEach(fn => fn(event, data)) invokes:
\* an exception thrown by fn leaves forEach and _notify
Invoked(ls) == IF FirstThrow(ls) = 0 THEN Len(ls) ELSE FirstThrow(ls)

\* _notify(event, data): the invocations it makes, each with the store the
\* subscriber finds
notify(ls, event, seen) ==
    [i \in 1..Invoked(ls) |-> [fn |-> ls[i], event |-> event, seen |-> seen]]

\* whether _notify(event, data) ends by an exception
NotifyThrows(ls) == FirstThrow(ls) # 0

\* this._listeners once _notify(event, data) is over: forEach runs over the
\* array it was called on, and each unsubscribe function called meanwhile
\* assigns a filtered copy to this._listeners
AfterNotify(ls) ==
    SelectSeq(ls, LAMBDA l : \A i \in 1..Invoked(ls) : l \notin Unsubscribes(ls[i]))

(***************************************************************************)
(* state.js: helpers of the tasks CRUD.                                    *)
(***************************************************************************)
\* the decimal rendering of a natural number
RECURSIVE ToDecimal(_)
ToDecimal(n) ==
    IF n < 10 THEN <<DigitChar(n)>> ELSE Append(ToDecimal(n \div 10), DigitChar(n % 10))

\* `task_${Date.now()}_${Math.random().toString(36).slice(2, 6)}`
GenId(now, rand) == <<"t", "a", "s", "k", "_">> \o ToDecimal(now) \o <<"_">> \o rand

\* the record addTask builds from the form data
NewTask(task, now, rand) ==
    [id |-> GenId(now, rand),
     title |-> Trim(task.title),
     dueDate |-> task.date,
     duration |-> ParseFloat(task.duration),
     tag |-> Trim(task.tag),
     notes |-> Trim(task.notes),
     createdAt |-> JIso(now),
     updatedAt |-> JIso(now)]

\* mutation of Unshift: push in place of unshift
Unshift_AsPush(ts, t) == Append(ts, t)

\* this.tasks.unshift(newTask)
Unshift(ts, t) == <<t>> \o ts

\* this.tasks.findIndex(t => t.id === id), counted from 1; 0 for JavaScript's -1
FindIndex(ts, id) ==
    IF \E i \in DOMAIN ts : ts[i].id = id
      THEN CHOOSE i \in DOMAIN ts : ts[i].id = id /\ \A j \in 1..(i - 1) : ts[j].id # id
    ELSE 0

\* { ...this.tasks[idx], ...updates, updatedAt: new Date().toISOString() }
Updated(rec, updates, now) == Spread(Spread(rec, updates), [updatedAt |-> JIso(now)])

\* this.tasks.splice(idx, 1)
Splice(ts, idx) == SubSeq(ts, 1, idx - 1) \o SubSeq(ts, idx + 1, Len(ts))

\* this.tasks.find(t => t.id === id) || null
Find(ts, id) == IF FindIndex(ts, id) = 0 THEN Null ELSE ts[FindIndex(ts, id)]

\* the fields saveInlineEdit passes to updateTask
InlineEditFields(data) ==
    [title |-> Trim(data.title),
     dueDate |-> data.date,
     duration |-> ParseFloat(data.duration),
     tag |-> Trim(data.tag),
     notes |-> Trim(data.notes)]

Result(op, id, val, threw) == [op |-> op, id |-> id, val |-> val, threw |-> threw]

(***************************************************************************)
(* state.js: the operations of AppState.                                   *)
(***************************************************************************)
addTask(task, rand) ==
    /\ Len(tasks) < MaxTasks
    /\ LET newTask == NewTask(task, clock, rand) IN
        /\ tasks' = Unshift(tasks, newTask)
        /\ storage' = saveTasks(storage, tasks')
        /\ log' = notify(listeners, "taskAdded", Snapshot(tasks', settings, tags))
        /\ ret' = Result("addTask", newTask.id, newTask, NotifyThrows(listeners))
    /\ listeners' = AfterNotify(listeners)
    /\ UNCHANGED <<settings, tags, clock>>

updateTask(id, updates) ==
    LET idx == FindIndex(tasks, id) IN
    IF idx = 0
      THEN /\ ret' = Result("updateTask", id, Null, FALSE)
           /\ log' = <<>>
           /\ UNCHANGED <<tasks, settings, tags, listeners, storage, clock>>
    ELSE /\ tasks' = [tasks EXCEPT ![idx] = Updated(tasks[idx], updates, clock)]
         /\ storage' = saveTasks(storage, tasks')
         /\ log' = notify(listeners, "taskUpdated", Snapshot(tasks', settings, tags))
         /\ ret' = Result("updateTask", id, tasks'[idx], NotifyThrows(listeners))
         /\ listeners' = AfterNotify(listeners)
         /\ UNCHANGED <<settings, tags, clock>>

\* mutation of deleteTask: the early return on idx === -1 is missing, so that
\* splice(-1, 1) removes the last record
deleteTask_NoGuard(id) ==
    LET idx == FindIndex(tasks, id)
        at == IF idx = 0 THEN Len(tasks) ELSE idx
    IN  /\ tasks' = IF tasks = <<>> THEN tasks ELSE Splice(tasks, at)
        /\ storage' = saveTasks(storage, tasks')
        /\ log' = notify(listeners, "taskDeleted", Snapshot(tasks', settings, tags))
        /\ ret' = Result("deleteTask", id, TRUE, NotifyThrows(listeners))
        /\ listeners' = AfterNotify(listeners)
        /\ UNCHANGED <<settings, tags, clock>>

deleteTask(id) ==
    LET idx == FindIndex(tasks, id) IN
    IF idx = 0
      THEN /\ ret' = Result("deleteTask", id, FALSE, FALSE)
           /\ log' = <<>>
           /\ UNCHANGED <<tasks, settings, tags, listeners, storage, clock>>
    ELSE /\ tasks' = Splice(tasks, idx)
         /\ storage' = saveTasks(storage, tasks')
         /\ log' = notify(listeners, "taskDeleted", Snapshot(tasks', settings, tags))
         /\ ret' = Result("deleteTask", id, TRUE, NotifyThrows(listeners))
         /\ listeners' = AfterNotify(listeners)
         /\ UNCHANGED <<settings, tags, clock>>

getTask(id) ==
    /\ ret' = Result("getTask", id, Find(tasks, id), FALSE)
    /\ log' = <<>>
    /\ UNCHANGED <<tasks, settings, tags, listeners, storage, clock>>

replaceTasks(ts) ==
    /\ tasks' = ts
    /\ storage' = saveTasks(storage, tasks')
    /\ log' = notify(listeners, "tasksReplaced", Snapshot(tasks', settings, tags))
    /\ ret' = Result("replaceTasks", <<>>, Null, NotifyThrows(listeners))
    /\ listeners' = AfterNotify(listeners)
    /\ UNCHANGED <<settings, tags, clock>>

clearAll ==
    /\ tasks' = <<>>
    /\ settings' = [durationUnit |-> "minutes", weeklyCap |-> 0]
    /\ tags' = DEFAULT_TAGS
    /\ storage' = saveTags(saveSettings(saveTasks(storage, tasks'), settings'), tags')
    /\ log' = notify(listeners, "cleared", Snapshot(tasks', settings', tags'))
    /\ ret' = Result("clearAll", <<>>, Null, NotifyThrows(listeners))
    /\ listeners' = AfterNotify(listeners)
    /\ UNCHANGED <<clock>>

updateSettings(updates) ==
    /\ settings' = Spread(settings, updates)
    /\ storage' = saveSettings(storage, settings')
    /\ log' = notify(listeners, "settingsUpdated", Snapshot(tasks, settings', tags))
    /\ ret' = Result("updateSettings", <<>>, Null, NotifyThrows(listeners))
    /\ listeners' = AfterNotify(listeners)
    /\ UNCHANGED <<tasks, tags, clock>>

\* this.tags.includes(tag)
Includes(tg, tag) == \E i \in DOMAIN tg : tg[i] = tag

\* this.tags.filter(t => t !== tag)
Without(tg, tag) == SelectSeq(tg, LAMBDA t : t # tag)

\* mutation of addTag: the includes test is missing
addTag_NoGuard(tag) ==
    /\ tags' = Append(tags, tag)
    /\ storage' = saveTags(storage, tags')
    /\ log' = notify(listeners, "tagsUpdated", Snapshot(tasks, settings, tags'))
    /\ ret' = Result("addTag", tag, Null, NotifyThrows(listeners))
    /\ listeners' = AfterNotify(listeners)
    /\ UNCHANGED <<tasks, settings, clock>>

addTag(tag) ==
    IF ~Includes(tags, tag)
      THEN /\ tags' = Append(tags, tag)
           /\ storage' = saveTags(storage, tags')
           /\ log' = notify(listeners, "tagsUpdated", Snapshot(tasks, settings, tags'))
           /\ ret' = Result("addTag", tag, Null, NotifyThrows(listeners))
           /\ listeners' = AfterNotify(listeners)
           /\ UNCHANGED <<tasks, settings, clock>>
    ELSE /\ ret' = Result("addTag", tag, Null, FALSE)
         /\ log' = <<>>
         /\ UNCHANGED <<tasks, settings, tags, listeners, storage, clock>>

removeTag(tag) ==
    /\ tags' = Without(tags, tag)
    /\ storage' = saveTags(storage, tags')
    /\ log' = notify(listeners, "tagsUpdated", Snapshot(tasks, settings, tags'))
    /\ ret' = Result("removeTag", tag, Null, NotifyThrows(listeners))
    /\ listeners' = AfterNotify(listeners)
    /\ UNCHANGED <<tasks, settings, clock>>

\* onChange(fn)
onChange(fn) ==
    /\ Len(listeners) < MaxListeners
    /\ listeners' = Append(listeners, fn)
    /\ ret' = Result("onChange", <<>>, Null, FALSE)
    /\ log' = <<>>
    /\ UNCHANGED <<tasks, settings, tags, storage, clock>>

\* the function onChange(fn) returned, called while fn is registered
Unsubscribe(fn) ==
    /\ Includes(listeners, fn)
    /\ listeners' = SelectSeq(listeners, LAMBDA l : l # fn)
    /\ ret' = Result("unsubscribe", <<>>, Null, FALSE)
    /\ log' = <<>>
    /\ UNCHANGED <<tasks, settings, tags, storage, clock>>

(***************************************************************************)
(* ui.js: the handlers that feed the store.                                *)
(***************************************************************************)
\* a handler that returns before it reaches the store
NoStoreCall ==
    /\ ret' = Result("none", <<>>, Null, FALSE)
    /\ log' = <<>>
    /\ UNCHANGED <<tasks, settings, tags, listeners, storage, clock>>

\* initForm: the submit listener of the add form
SubmitForm(data, rand) ==
    IF validateForm(data) THEN addTask(data, rand) ELSE NoStoreCall

\* saveInlineEdit(rowEl), rowEl the row of task id
saveInlineEdit(id, data) ==
    IF validateForm(data) THEN updateTask(id, InlineEditFields(data)) ELSE NoStoreCall

\* handleImport: reader.onload, the file read being `file`
handleImport(file) ==
    LET result == validateImport(file, clock) IN
    IF result.threw
      THEN /\ ret' = Result("none", <<>>, Null, TRUE)
           /\ log' = <<>>
           /\ UNCHANGED <<tasks, settings, tags, listeners, storage, clock>>
    ELSE IF Len(result.data) > 0 THEN replaceTasks(result.data)
    ELSE NoStoreCall

\* time passes
Tick ==
    /\ clock < MaxClock
    /\ clock' = clock + 1
    /\ UNCHANGED <<tasks, settings, tags, listeners, storage, ret, log>>

(***************************************************************************)
(* The inputs the operations are exercised with.                           *)
(***************************************************************************)
Str_Study == <<"S", "t", "u", "d", "y">>
Str_Club == <<"C", "l", "u", "b">>
Date_2025_02_28 == <<"2", "0", "2", "5", "-", "0", "2", "-", "2", "8">>
Date_2024_02_29 == <<"2", "0", "2", "4", "-", "0", "2", "-", "2", "9">>
Date_2025_02_30 == <<"2", "0", "2", "5", "-", "0", "2", "-", "3", "0">>
Date_2025_03_01 == <<"2", "0", "2", "5", "-", "0", "3", "-", "0", "1">>

FormLab ==
    [title |-> <<"L", "a", "b">>, date |-> Date_2025_02_28, duration |-> <<"9", "0">>,
     tag |-> Str_Study, notes |-> <<>>]

FormEssay ==
    [title |-> <<"e", "s", "s", "a", "y">>, date |-> Date_2024_02_29,
     duration |-> <<"1", "2", ".", "5">>, tag |-> Str_Club, notes |-> <<"x", " ">>]

\* the values of the form's inputs at submit: one that validateForm accepts,
\* then a date that is not real, a title with a trailing space, a duration
\* with a leading zero
FormInputs ==
    { FormLab,
      [FormLab EXCEPT !.date = Date_2025_02_30],
      [FormLab EXCEPT !.title = <<"L", "a", "b", " ">>],
      [FormLab EXCEPT !.duration = <<"0", "0">>] }

\* the values of the inputs of an inline edit at save
EditInputs == { FormEssay, [FormEssay EXCEPT !.date = Date_2025_02_30] }

\* values of Math.random().toString(36).slice(2, 6)
RandSuffixes == { <<"k", "3", "x", "9">>, <<"7", "q">> }

\* partial fields handed to updateTask
UpdateArgs == { [id |-> <<"z">>] }

MissingId == <<"n", "o", "n", "e">>

\* the ids an operation is called with: those of the collection, and one that
\* is not in it
IdArgs == {tasks[i].id : i \in DOMAIN tasks} \cup {MissingId}

ImportItem(id, title, dueDate, createdAt, updatedAt) ==
    [isObject |-> TRUE, id |-> JStr(id), title |-> title, dueDate |-> JStr(dueDate),
     duration |-> JNum(3000), tag |-> JStr(Str_Study), notes |-> JUndef,
     createdAt |-> createdAt, updatedAt |-> updatedAt]

ItemA == ImportItem(<<"a">>, JStr(<<" ", "Q", "u", "i", "z">>), Date_2025_03_01, JUndef, JUndef)
ItemA2 == ImportItem(<<"a">>, JStr(<<"G", "y", "m">>), Date_2025_03_01, JIso(0), JIso(0))
ItemFeb30 == ImportItem(<<"b">>, JStr(<<"Q", "u", "i", "z">>), Date_2025_02_30, JUndef, JUndef)
ItemBackdated == ImportItem(<<"c">>, JStr(<<"Q", "u", "i", "z">>), Date_2025_03_01, JIso(1), JIso(0))
ItemNoTitle == ImportItem(<<"d">>, JUndef, Date_2025_03_01, JUndef, JUndef)

ArrayFile(items) == [wellFormed |-> TRUE, isArray |-> TRUE, items |-> items]

\* the files handed to the import: arrays of elements, an object, malformed text
ImportFiles ==
    { ArrayFile(<<ItemA>>),
      ArrayFile(<<ItemA, ItemA2>>),
      ArrayFile(<<ItemFeb30>>),
      ArrayFile(<<ItemBackdated, ItemNoTitle>>),
      ArrayFile(<<ItemNoTitle>>),
      [wellFormed |-> TRUE, isArray |-> FALSE, items |-> <<>>],
      [wellFormed |-> FALSE, isArray |-> FALSE, items |-> <<>>] }

Str_Gym == <<"G", "y", "m">>

\* what localStorage holds when the page loads: nothing on a first visit
FirstVisit == [tasks |-> NoItem, settings |-> NoItem, tags |-> NoItem]

\* or what an earlier session saved: here one that ended with no task, the
\* duration unit set to hours and the vocabulary reduced to one tag
EarlierSession ==
    [tasks |-> SetItem(<<>>),
     settings |-> SetItem([durationUnit |-> "hours", weeklyCap |-> 0]),
     tags |-> SetItem(<<Str_Gym>>)]

\* the state once the module is loaded (the AppState constructor) and
\* subscribers ls are registered
InitWith(storages, ls) ==
    /\ storage \in storages
    /\ tasks = loadTasks(storage)
    /\ settings = loadSettings(storage)
    /\ tags = loadTags(storage)
    /\ listeners = ls
    /\ clock = 0
    /\ ret = Result("none", <<>>, Null, FALSE)
    /\ log = <<>>
    /\ confirmCallback = Null
    /\ overlayHidden = TRUE

(***************************************************************************)
(* Spec: the operations on the collection, behind the one subscriber that  *)
(* app.js registers.                                                       *)
(***************************************************************************)
Init == InitWith({FirstVisit}, <<"render">>)

Next ==
    \/ Tick /\ UNCHANGED dialog
    \/ \E data \in FormInputs, rand \in RandSuffixes : SubmitForm(data, rand) /\ UNCHANGED dialog
    \/ \E id \in IdArgs, updates \in UpdateArgs : updateTask(id, updates) /\ UNCHANGED dialog
    \/ \E id \in IdArgs : deleteTask(id) /\ UNCHANGED dialog
    \/ \E id \in IdArgs : getTask(id) /\ UNCHANGED dialog
    \/ \E file \in ImportFiles : handleImport(file) /\ UNCHANGED dialog
    \/ clearAll /\ UNCHANGED dialog

Spec == Init /\ [][Next]_vars

(***************************************************************************)
(* SpecUI: the collection as the UI's validated entry points drive it:     *)
(* the add form, the inline edit, the file import, delete and clear.       *)
(***************************************************************************)
NextUI ==
    \/ Tick /\ UNCHANGED dialog
    \/ \E data \in FormInputs, rand \in RandSuffixes : SubmitForm(data, rand) /\ UNCHANGED dialog
    \/ \E id \in IdArgs \ {MissingId}, data \in EditInputs : saveInlineEdit(id, data) /\ UNCHANGED dialog
    \/ \E id \in IdArgs \ {MissingId} : deleteTask(id) /\ UNCHANGED dialog
    \/ \E file \in ImportFiles : handleImport(file) /\ UNCHANGED dialog
    \/ clearAll /\ UNCHANGED dialog

SpecUI == Init /\ [][NextUI]_vars

(***************************************************************************)
(* SpecStore: every mutating operation of the store, with subscribers      *)
(* that come and go and may throw, from either content of localStorage.    *)
(***************************************************************************)
SettingsArgs == { [weeklyCap |-> 30000] }

TagArgs == { Str_Gym }

StoreFiles == { ArrayFile(<<ItemA>>), ArrayFile(<<ItemNoTitle>>) }

InitStore == InitWith({FirstVisit, EarlierSession}, <<>>)

NextStore ==
    \/ \E fn \in Subscribers : onChange(fn) /\ UNCHANGED dialog
    \/ \E fn \in Subscribers : Unsubscribe(fn) /\ UNCHANGED dialog
    \/ SubmitForm(FormLab, <<"k", "3", "x", "9">>) /\ UNCHANGED dialog
    \/ \E id \in IdArgs : updateTask(id, [notes |-> <<"n">>]) /\ UNCHANGED dialog
    \/ \E id \in IdArgs : deleteTask(id) /\ UNCHANGED dialog
    \/ \E file \in StoreFiles : handleImport(file) /\ UNCHANGED dialog
    \/ \E updates \in SettingsArgs : updateSettings(updates) /\ UNCHANGED dialog
    \/ \E tag \in TagArgs : addTag(tag) /\ UNCHANGED dialog
    \/ \E tag \in TagArgs : removeTag(tag) /\ UNCHANGED dialog
    \/ clearAll /\ UNCHANGED dialog

SpecStore == InitStore /\ [][NextStore]_vars

(***************************************************************************)
(* Strings, continued: code-unit order and case.                           *)
(***************************************************************************)
\* the characters of the model in increasing order of their UTF-16 code
CodeOrder ==
    <<"\t", "\n", "\r", " ", "\"", "#", "&", "'", "(", ")", "*", "-", ".", "/">>
        \o Digits \o <<":", ";", "<", ">", "@">> \o UpperCase \o <<"_">>
        \o LowerCase \o <<"|">>

\* the rank of c among them: it orders characters as their codes do
CharCode(c) == IndexOf(CodeOrder, c)

\* String.prototype.toLowerCase
ToLowerCase(s) ==
    [i \in DOMAIN s |->
        IF s[i] \in Range(UpperCase) THEN LowerCase[IndexOf(UpperCase, s[i])] ELSE s[i]]

\* a < b on two strings: the order of the first code unit that differs, a
\* proper prefix being smaller
StrLess(a, b) ==
    \E i \in 1..(Len(b)) :
        /\ \A j \in 1..(i - 1) : j <= Len(a) /\ a[j] = b[j]
        /\ \/ i = Len(a) + 1
           \/ i <= Len(a) /\ CharCode(a[i]) < CharCode(b[i])

\* dropping the last element
Front(s) == SubSeq(s, 1, Len(s) - 1)

RECURSIVE Reverse(_)
Reverse(s) == IF s = <<>> THEN <<>> ELSE Append(Reverse(Tail(s)), Head(s))

(***************************************************************************)
(* state.js: sortTasks.                                                    *)
(***************************************************************************)
\* mutation of SortCompare: the titles are compared as they are written
SortCompare_CaseSensitive(a, b, field, direction) ==
    LET dir == IF direction = "asc" THEN 1 ELSE -1 IN
    CASE field = "date" ->
            IF StrLess(a.dueDate, b.dueDate) THEN -1 * dir
            ELSE IF StrLess(b.dueDate, a.dueDate) THEN 1 * dir ELSE 0
      [] field = "title" ->
            IF StrLess(a.title, b.title) THEN -1 * dir
            ELSE IF StrLess(b.title, a.title) THEN 1 * dir ELSE 0
      [] field = "duration" ->
            IF a.duration < b.duration THEN -1 * dir
            ELSE IF a.duration > b.duration THEN 1 * dir ELSE 0
      [] OTHER -> 0

\* the comparator sortTasks hands to Array.prototype.sort
SortCompare(a, b, field, direction) ==
    LET dir == IF direction = "asc" THEN 1 ELSE -1 IN
    CASE field = "date" ->
            IF StrLess(a.dueDate, b.dueDate) THEN -1 * dir
            ELSE IF StrLess(b.dueDate, a.dueDate) THEN 1 * dir ELSE 0
      [] field = "title" ->
            IF StrLess(ToLowerCase(a.title), ToLowerCase(b.title)) THEN -1 * dir
            ELSE IF StrLess(ToLowerCase(b.title), ToLowerCase(a.title)) THEN 1 * dir
            ELSE 0
      [] field = "duration" ->
            IF a.duration < b.duration THEN -1 * dir
            ELSE IF a.duration > b.duration THEN 1 * dir ELSE 0
      [] OTHER -> 0

\* Array.prototype.sort is a stable sort: an insertion sort, each element
\* moved left past the elements the comparator puts after it
RECURSIVE SortInsert(_, _, _, _)
SortInsert(s, x, field, direction) ==
    IF s # <<>> /\ SortCompare(s[Len(s)], x, field, direction) > 0
      THEN Append(SortInsert(Front(s), x, field, direction), s[Len(s)])
    ELSE Append(s, x)

\* [...ts].sort(comparator)
RECURSIVE Sorted(_, _, _)
Sorted(ts, field, direction) ==
    IF ts = <<>> THEN <<>>
    ELSE SortInsert(Sorted(Front(ts), field, direction), ts[Len(ts)], field, direction)

\* mutation of sortTasks: this.tasks.sort(...) without the copy
sortTasks_InPlace(field, direction) ==
    /\ tasks' = Sorted(tasks, field, direction)
    /\ ret' = Result("sortTasks", [field |-> field, direction |-> direction], tasks', FALSE)
    /\ log' = <<>>
    /\ UNCHANGED <<settings, tags, listeners, storage, clock>>

sortTasks(field, direction) ==
    /\ ret' = Result("sortTasks", [field |-> field, direction |-> direction],
                     Sorted(tasks, field, direction), FALSE)
    /\ log' = <<>>
    /\ UNCHANGED <<tasks, settings, tags, listeners, storage, clock>>

(***************************************************************************)
(* SpecSort: the sorted view of the collection, as renderRecords asks for  *)
(* it, over collections built by the add form.                             *)
(***************************************************************************)
Str_SelfCare == <<"S", "e", "l", "f", "-", "C", "a", "r", "e">>

\* same duration as FormLab, a later date, a title that sorts after "essay"
\* only when case is ignored, markup in the title and the notes
FormQuiz ==
    [title |-> <<"Q", "&", "A">>, date |-> Date_2025_03_01, duration |-> <<"9", "0">>,
     tag |-> Str_SelfCare, notes |-> <<"<", "b", ">">>]

ViewForms == { FormLab, FormEssay, FormQuiz }

\* the fields the sort buttons name, and one they do not
SortFields == {"date", "title", "duration", "priority"}

Directions == {"asc", "desc"}

NextSort ==
    \/ \E data \in ViewForms, rand \in RandSuffixes : SubmitForm(data, rand) /\ UNCHANGED dialog
    \/ \E id \in IdArgs : deleteTask(id) /\ UNCHANGED dialog
    \/ \E field \in SortFields, direction \in Directions : sortTasks(field, direction) /\ UNCHANGED dialog

SpecSort == Init /\ [][NextSort]_vars

(***************************************************************************)
(* Regular expressions, as new RegExp(source, flags) compiles them and     *)
(* RegExp.prototype.exec runs them.  The patterns are those over the       *)
(* characters of CodeOrder: "(", ")", "|", "*" and "." are syntax, every   *)
(* other character stands for itself.                                      *)
(***************************************************************************)
\* the character at position i of q, "" past the end
At(q, i) == IF i \in DOMAIN q THEN q[i] ELSE ""

ParseFail(i) == [ok |-> FALSE, ast |-> [k |-> "empty"], next |-> i]

RECURSIVE ParseDisjunction(_, _)
RECURSIVE ParseAlternative(_, _)
RECURSIVE ParseTerm(_, _)
RECURSIVE ParseAtom(_, _)

\* Atom: a group, ".", or a character; "*" with nothing to repeat and a
\* group that is not closed are SyntaxErrors
ParseAtom(q, i) ==
    CASE At(q, i) = "(" ->
            LET d == ParseDisjunction(q, i + 1) IN
            IF d.ok /\ At(q, d.next) = ")"
              THEN [ok |-> TRUE, ast |-> [k |-> "group", a |-> d.ast], next |-> d.next + 1]
            ELSE ParseFail(i)
      [] At(q, i) = "*" -> ParseFail(i)
      [] At(q, i) = "." -> [ok |-> TRUE, ast |-> [k |-> "dot"], next |-> i + 1]
      [] OTHER -> [ok |-> TRUE, ast |-> [k |-> "lit", c |-> q[i]], next |-> i + 1]

\* Term: an atom and its quantifier
ParseTerm(q, i) ==
    LET a == ParseAtom(q, i) IN
    IF a.ok /\ At(q, a.next) = "*"
      THEN [ok |-> TRUE, ast |-> [k |-> "star", a |-> a.ast], next |-> a.next + 1]
    ELSE a

\* Alternative: terms up to "|", ")" or the end
ParseAlternative(q, i) ==
    IF At(q, i) \in {"", "|", ")"} THEN [ok |-> TRUE, ast |-> [k |-> "empty"], next |-> i]
    ELSE LET t == ParseTerm(q, i) IN
         IF ~t.ok THEN ParseFail(i)
         ELSE LET rest == ParseAlternative(q, t.next) IN
              IF ~rest.ok THEN ParseFail(i)
              ELSE [ok |-> TRUE, ast |-> [k |-> "cat", a |-> t.ast, b |-> rest.ast],
                    next |-> rest.next]

\* Disjunction: alternatives separated by "|"
ParseDisjunction(q, i) ==
    LET a == ParseAlternative(q, i) IN
    IF a.ok /\ At(q, a.next) = "|"
      THEN LET rest == ParseDisjunction(q, a.next + 1) IN
           IF ~rest.ok THEN ParseFail(i)
           ELSE [ok |-> TRUE, ast |-> [k |-> "alt", a |-> a.ast, b |-> rest.ast],
                 next |-> rest.next]
    ELSE a

\* the pattern parses: what is left over is an unmatched ")"
Parses(q) ==
    LET d == ParseDisjunction(q, 1) IN d.ok /\ d.next = Len(q) + 1

\* whether character c of the pattern matches character x of the text
CharMatches(c, x, ignoreCase) ==
    IF ignoreCase THEN ToLowerCase(<<c>>) = ToLowerCase(<<x>>) ELSE c = x

RECURSIVE Ends(_, _, _, _)
RECURSIVE EndsFrom(_, _, _, _)

\* the positions where a match of ast that starts at position i of s can
\* end, in the order backtracking tries them (positions count from 1, an end
\* is the position after the last character matched)
Ends(ast, s, i, ignoreCase) ==
    CASE ast.k = "empty" -> <<i>>
      [] ast.k = "lit" ->
            IF i \in DOMAIN s /\ CharMatches(ast.c, s[i], ignoreCase) THEN <<i + 1>> ELSE <<>>
      [] ast.k = "dot" ->
            IF i \in DOMAIN s /\ ~IsLineTerminator(s[i]) THEN <<i + 1>> ELSE <<>>
      [] ast.k = "group" -> Ends(ast.a, s, i, ignoreCase)
      [] ast.k = "alt" -> Ends(ast.a, s, i, ignoreCase) \o Ends(ast.b, s, i, ignoreCase)
      [] ast.k = "cat" -> EndsFrom(ast.b, s, Ends(ast.a, s, i, ignoreCase), ignoreCase)
      [] ast.k = "star" ->
            \* greedy: one more iteration first (an empty iteration is
            \* rejected), then none
            EndsFrom(ast, s,
                     SelectSeq(Ends(ast.a, s, i, ignoreCase), LAMBDA e : e > i),
                     ignoreCase) \o <<i>>

\* the ends of ast started at each of the positions es, in order
EndsFrom(ast, s, es, ignoreCase) ==
    IF es = <<>> THEN <<>>
    ELSE Ends(ast, s, Head(es), ignoreCase) \o EndsFrom(ast, s, Tail(es), ignoreCase)

\* the compiled object: its source and flags
RegExp(source, flags) == [source |-> source, flags |-> flags]

IgnoreCase(regex) == "i" \in Range(regex.flags)

\* the first position from i on where ast matches in s, and the end of the
\* match there; positions count from 1
RECURSIVE FirstMatch(_, _, _, _)
FirstMatch(ast, s, i, ignoreCase) ==
    IF i > Len(s) + 1 THEN [found |-> FALSE, index |-> 0, end |-> 0, lastIndex |-> 0]
    ELSE LET es == Ends(ast, s, i, ignoreCase) IN
         IF es = <<>> THEN FirstMatch(ast, s, i + 1, ignoreCase)
         ELSE [found |-> TRUE, index |-> i - 1, end |-> Head(es) - 1,
               lastIndex |-> Head(es) - 1]

\* regex.exec(s) of a global regex whose lastIndex is lastIndex: the first
\* position at or after lastIndex where the pattern matches, the match there,
\* and the lastIndex it leaves (the end of the match, 0 on failure); indices
\* count from 0 as in JavaScript
Exec(regex, s, lastIndex) ==
    FirstMatch(ParseDisjunction(regex.source, 1).ast, s, lastIndex + 1, IgnoreCase(regex))

(***************************************************************************)
(* search.js.                                                              *)
(***************************************************************************)
\* an error message
Error(message) == [message |-> message]

\* compileRegex(input, flags), input not blank
compileRegex(input, flags) ==
    IF Parses(input) THEN [regex |-> RegExp(input, flags), error |-> Null]
    ELSE [regex |-> Null, error |-> Error("Invalid regex: SyntaxError")]

\* str.replace(/[&<>"']/g, c => map[c])
RECURSIVE escapeHTML(_)
escapeHTML(str) ==
    IF str = <<>> THEN <<>>
    ELSE (CASE Head(str) = "&" -> <<"&", "a", "m", "p", ";">>
            [] Head(str) = "<" -> <<"&", "l", "t", ";">>
            [] Head(str) = ">" -> <<"&", "g", "t", ";">>
            [] Head(str) = "\"" -> <<"&", "q", "u", "o", "t", ";">>
            [] Head(str) = "'" -> <<"&", "#", "0", "3", "9", ";">>
            [] OTHER -> <<Head(str)>>) \o escapeHTML(Tail(str))

MarkOpen == <<"<", "m", "a", "r", "k", ">">>
MarkClose == <<"<", "/", "m", "a", "r", "k", ">">>

\* s.replace(globalRegex, match => `<mark>${match}</mark>`), from position
\* lastIndex on, `from` being the end of the last match replaced: after an
\* empty match lastIndex advances by one
RECURSIVE ReplaceMatches(_, _, _, _)
ReplaceMatches(s, regex, lastIndex, from) ==
    LET m == IF lastIndex > Len(s) THEN [found |-> FALSE] ELSE Exec(regex, s, lastIndex) IN
    IF ~m.found THEN SubSeq(s, from + 1, Len(s))
    ELSE SubSeq(s, from + 1, m.index)
           \o MarkOpen \o SubSeq(s, m.index + 1, m.end) \o MarkClose
           \o ReplaceMatches(s, regex, IF m.end = m.index THEN m.end + 1 ELSE m.end, m.end)

\* mutation of highlight: the matches are marked in the raw text
highlight_Unescaped(text, regex) ==
    IF regex = Null \/ text = <<>> THEN text
    ELSE ReplaceMatches(text, regex, 0, 0)

\* highlight(text, regex)
highlight(text, regex) ==
    IF regex = Null \/ text = <<>> THEN escapeHTML(text)
    ELSE LET escaped == escapeHTML(text)
             globalRegex == RegExp(regex.source,
                                   IF "g" \in Range(regex.flags) THEN regex.flags
                                   ELSE regex.flags \o <<"g">>)
         IN  ReplaceMatches(escaped, globalRegex, 0, 0)

IsWordChar(c) == IsLetter(c) \/ IsDigit(c) \/ c = "_"

\* input.match(PATTERNS.tagFilter), /^@tag:(\w[\w -]*)$/i: whether it matches
TagFilterMatches(input) ==
    /\ Len(input) >= 6
    /\ ToLowerCase(SubSeq(input, 1, 5)) = <<"@", "t", "a", "g", ":">>
    /\ IsWordChar(input[6])
    /\ \A i \in 7..Len(input) : IsWordChar(input[i]) \/ input[i] \in {" ", "-"}

\* tagMatch[1]
TagFilterName(input) == SubSeq(input, 6, Len(input))

\* hay.includes(needle)
StrIncludes(hay, needle) ==
    \E i \in 0..(Len(hay) - Len(needle)) : SubSeq(hay, i + 1, i + Len(needle)) = needle

\* String(n) of a number held in hundredths
NumberToString(n) ==
    IF n = Infinity THEN <<"I", "n", "f", "i", "n", "i", "t", "y">>
    ELSE ToDecimal(n \div 100)
           \o (IF n % 100 = 0 THEN <<>>
               ELSE IF n % 10 = 0 THEN <<".", DigitChar((n % 100) \div 10)>>
               ELSE <<".", DigitChar((n % 100) \div 10), DigitChar(n % 10)>>)

\* [task.title, task.tag, task.notes || '', task.dueDate, String(task.duration)].join(' ')
Searchable(task) ==
    task.title \o <<" ">> \o task.tag \o <<" ">> \o task.notes \o <<" ">>
        \o task.dueDate \o <<" ">> \o NumberToString(task.duration)

\* mutation of TestStart: the lastIndex the previous test left is kept
TestStart_Carried(lastIndex) == lastIndex

\* regex.lastIndex = 0 before each test
TestStart(lastIndex) == 0

\* tasks.filter(task => { regex.lastIndex = 0; return regex.test(searchable) })
\* from record i on, regex.lastIndex being lastIndex
RECURSIVE FilterByRegex(_, _, _, _)
FilterByRegex(ts, i, regex, lastIndex) ==
    IF i > Len(ts) THEN <<>>
    ELSE LET m == Exec(regex, Searchable(ts[i]), TestStart(lastIndex)) IN
         (IF m.found THEN <<ts[i]>> ELSE <<>>) \o FilterByRegex(ts, i + 1, regex, m.lastIndex)

\* mutation of OnCompileError: fail closed
OnCompileError_FailClosed(ts, error) == [filtered |-> <<>>, regex |-> Null, error |-> error]

\* if (error) return { filtered: tasks, regex: null, error }
OnCompileError(ts, error) == [filtered |-> ts, regex |-> Null, error |-> error]

\* filterTasks(tasks, searchInput, caseSensitive)
filterTasks(ts, searchInput, caseSensitive) ==
    LET input == Trim(searchInput) IN
    IF input = <<>> THEN [filtered |-> ts, regex |-> Null, error |-> Null]
    ELSE IF TagFilterMatches(input)
      THEN LET tagSearch == ToLowerCase(TagFilterName(input)) IN
           [filtered |-> SelectSeq(ts, LAMBDA t : StrIncludes(ToLowerCase(t.tag), tagSearch)),
            regex |-> Null, error |-> Null]
    ELSE LET flags == IF caseSensitive THEN <<"g">> ELSE <<"g", "i">>
             compiled == compileRegex(input, flags)
         IN  IF compiled.error # Null THEN OnCompileError(ts, compiled.error)
             ELSE [filtered |-> FilterByRegex(ts, 1, compiled.regex, 0),
                   regex |-> compiled.regex, error |-> Null]

(***************************************************************************)
(* ui.js: the records view.                                                *)
(***************************************************************************)
\* renderRecords(), currentSort, currentSearch and caseSensitive being the
\* arguments: what filterTasks returns for the sorted view
renderRecords(field, direction, searchInput, caseSensitive) ==
    /\ ret' = Result("renderRecords",
                     [field |-> field, direction |-> direction,
                      searchInput |-> searchInput, caseSensitive |-> caseSensitive],
                     filterTasks(Sorted(tasks, field, direction), searchInput, caseSensitive),
                     FALSE)
    /\ log' = <<>>
    /\ UNCHANGED <<tasks, settings, tags, listeners, storage, clock>>

\* renderTableRow(task, regex), as renderRecords calls it for the i-th
\* record and the regex filterTasks has just returned: the highlighted title,
\* tag and notes
renderTableRow(i) ==
    /\ ret.op = "renderRecords"
    /\ i \in DOMAIN ret.val.filtered
    /\ LET task == ret.val.filtered[i]
           regex == ret.val.regex
       IN  ret' = Result("renderTableRow",
                         [task |-> task, regex |-> regex],
                         [title |-> highlight(task.title, regex),
                          tag |-> highlight(task.tag, regex),
                          notes |-> IF task.notes # <<>> THEN highlight(task.notes, regex)
                                    ELSE <<>>],
                         FALSE)
    /\ log' = <<>>
    /\ UNCHANGED <<tasks, settings, tags, listeners, storage, clock>>

(***************************************************************************)
(* SpecSearch: the search box and the rows it highlights, over collections *)
(* built by the add form.                                                  *)
(***************************************************************************)
\* patterns new RegExp rejects: an open group, an unmatched ")", a
\* quantifier with nothing to repeat
MalformedQueries == { <<"(">>, <<"a", ")">>, <<"*">> }

\* what the search box holds: patterns, malformed patterns, tag filters, and
\* a blank
SearchQueries ==
    { <<"l", "a", "b">>,
      <<"a">>,
      <<"a", "*">>,
      <<"S", ".", "*", "y">>,
      <<"(", "b", "|", "q", ")", "u">>,
      <<"@", "t", "a", "g", ":", "S", "t", "u", "d", "y">>,
      <<" ", "@", "t", "a", "g", ":", "c", "a", "r", "e", " ">>,
      <<"@", "t", "a", "g", ":", "-", "C", "a", "r", "e">>,
      <<" ">> } \cup MalformedQueries

\* the forms the searched collections are built from
SearchForms == { FormLab, FormQuiz }

\* the view is sorted as the page first shows it: by date, latest first
NextSearch ==
    \/ \E data \in SearchForms : SubmitForm(data, <<"k", "3", "x", "9">>) /\ UNCHANGED dialog
    \/ \E searchInput \in SearchQueries, caseSensitive \in BOOLEAN :
           renderRecords("date", "desc", searchInput, caseSensitive) /\ UNCHANGED dialog
    \/ \E i \in 1..MaxTasks : renderTableRow(i) /\ UNCHANGED dialog

SpecSearch == Init /\ [][NextSearch]_vars

(***************************************************************************)
(* SpecImport: validateImport on the text of a file, as reader.onload      *)
(* calls it.                                                               *)
(***************************************************************************)
MaxItems == 3

\* validateImport(reader.result)
readerOnload(file) ==
    LET result == validateImport(file, clock) IN
    /\ ret' = Result("validateImport", file,
                     [valid |-> result.valid, data |-> result.data, errors |-> result.errors],
                     result.threw)
    /\ log' = <<>>
    /\ UNCHANGED <<tasks, settings, tags, listeners, storage, clock>>

\* an element that is no object: a number, a string, null
ItemNotObject ==
    [isObject |-> FALSE, id |-> JUndef, title |-> JUndef, dueDate |-> JUndef,
     duration |-> JUndef, tag |-> JUndef, notes |-> JUndef,
     createdAt |-> JUndef, updatedAt |-> JUndef]

\* elements whose five required fields pass: notes a number, notes a string
\* to trim with timestamps of other types, and one whose notes are false
ItemNotesNumber == [ItemA EXCEPT !.id = JStr(<<"e">>), !.notes = JNum(500)]
ItemNotesText ==
    [ItemA EXCEPT !.id = JStr(<<"f">>), !.notes = JStr(<<" ", "h", "i">>),
                  !.createdAt = JTrue, !.updatedAt = JNum(100)]

\* the elements an imported array is made of
ImportElements == { ItemA, ItemNoTitle, ItemNotObject, ItemNotesNumber, ItemNotesText }

\* the sequences of at most n of them
RECURSIVE ItemSeqs(_)
ItemSeqs(n) ==
    IF n = 0 THEN { <<>> }
    ELSE ItemSeqs(n - 1)
           \cup { Append(s, e) : s \in { t \in ItemSeqs(n - 1) : Len(t) = n - 1 },
                                 e \in ImportElements }

\* the files read: arrays, a value that is no array, text that does not parse
ReadFiles ==
    { ArrayFile(items) : items \in ItemSeqs(MaxItems) }
        \cup { [wellFormed |-> TRUE, isArray |-> FALSE, items |-> <<>>],
               [wellFormed |-> FALSE, isArray |-> FALSE, items |-> <<>>] }

NextImport ==
    \/ Tick /\ UNCHANGED dialog
    \/ \E file \in ReadFiles : readerOnload(file) /\ UNCHANGED dialog

SpecImport == Init /\ [][NextImport]_vars

(***************************************************************************)
(* SpecExport: the export of a collection built through the validated      *)
(* form and inline edit, read back by validateImport.                      *)
(***************************************************************************)
\* JSON.parse of the value JSON.stringify writes for a record
ToJson(task) ==
    [isObject |-> TRUE,
     id |-> JStr(task.id),
     title |-> JStr(task.title),
     dueDate |-> JStr(task.dueDate),
     duration |-> IF task.duration = Infinity THEN JNull ELSE JNum(task.duration),
     tag |-> JStr(task.tag),
     notes |-> JStr(task.notes),
     createdAt |-> task.createdAt,
     updatedAt |-> task.updatedAt]

RECURSIVE ToJsonItems(_)
ToJsonItems(ts) == IF ts = <<>> THEN <<>> ELSE <<ToJson(Head(ts))>> \o ToJsonItems(Tail(ts))

\* exportJSON(tasks): the text JSON.stringify(tasks, null, 2) writes, given
\* by the value it parses to
exportJSON(ts) == ArrayFile(ToJsonItems(ts))

\* handleExport, the file read back by validateImport
exportAndValidate ==
    LET result == validateImport(exportJSON(tasks), clock) IN
    /\ ret' = Result("exportAndValidate", <<>>,
                     [valid |-> result.valid, data |-> result.data, errors |-> result.errors],
                     result.threw)
    /\ log' = <<>>
    /\ UNCHANGED <<tasks, settings, tags, listeners, storage, clock>>

\* a duration of 1 followed by 309 zeros: PATTERNS.numeric accepts it
Zeros(n) == [i \in 1..n |-> "0"]

FormMarathon == [FormLab EXCEPT !.duration = <<"1">> \o Zeros(Len(MaxFiniteBound))]

ExportForms == { FormLab, FormMarathon, [FormLab EXCEPT !.date = Date_2025_02_30] }

NextExport ==
    \/ Tick /\ UNCHANGED dialog
    \/ \E data \in ExportForms, rand \in RandSuffixes : SubmitForm(data, rand) /\ UNCHANGED dialog
    \/ \E id \in IdArgs \ {MissingId} : saveInlineEdit(id, FormEssay) /\ UNCHANGED dialog
    \/ exportAndValidate /\ UNCHANGED dialog

SpecExport == Init /\ [][NextExport]_vars

(***************************************************************************)
(* ui.js: the settings page (initSettings, renderTagsList).                *)
(***************************************************************************)
\* parseInt(s): leading white space, an optional sign, then the longest run
\* of decimal digits; NaN when there is no digit
ParseInt(s) ==
    LET t == TrimStart(s)
        signed == t # <<>> /\ t[1] \in {"+", "-"}
        u == IF signed THEN Tail(t) ELSE t
        n == IF \E i \in DOMAIN u : ~IsDigit(u[i])
               THEN (CHOOSE i \in DOMAIN u :
                        ~IsDigit(u[i]) /\ \A j \in 1..(i - 1) : IsDigit(u[j])) - 1
             ELSE Len(u)
        magnitude == 100 * DigitsVal(SubSeq(u, 1, n))
    IN  [nan |-> n = 0,
         n |-> IF signed /\ t[1] = "-" THEN 0 - magnitude ELSE magnitude]

\* the change listener of a duration-unit radio, radio.value being `value`
durationUnitChange(value) == updateSettings([durationUnit |-> value])

\* the click listener of #save-cap-btn: parseInt(capInput.value) || 0
saveCapClick(value) ==
    LET parsed == ParseInt(value)
        val == IF parsed.nan \/ parsed.n = 0 THEN 0 ELSE parsed.n
    IN  updateSettings([weeklyCap |-> val])

\* the click listener of #add-tag-btn, input.value being `value`
addTagClick(value) ==
    LET tag == Trim(value) IN
    IF tag # <<>> /\ PatternTag(tag) THEN addTag(tag) ELSE NoStoreCall

\* the click listener of the remove button of a chip: renderTagsList draws
\* one chip for each tag of the vocabulary
removeTagClick(tag) ==
    /\ Includes(tags, tag)
    /\ removeTag(tag)

(***************************************************************************)
(* SpecSettings: the settings page, from a first visit: the unit radios,   *)
(* the weekly cap, the tag chips and the clearing of all data.             *)
(***************************************************************************)
\* the values of the two radios named duration-unit
UnitValues == {"minutes", "hours"}

\* what #settings-cap holds at the click: a count of minutes, nothing, a
\* negative number, a fraction
CapInputs == { <<"3", "0", "0">>, <<>>, <<"-", "5">>, <<"2", ".", "5">> }

\* what #new-tag-input holds at the click: a new tag, a tag of the default
\* vocabulary between spaces, a tag that ends with a hyphen
TagInputs == { Str_Gym, <<" ">> \o Str_Study \o <<" ">>, <<"t", "a", "g", "-">> }

NextSettings ==
    \/ \E value \in UnitValues : durationUnitChange(value) /\ UNCHANGED dialog
    \/ \E value \in CapInputs : saveCapClick(value) /\ UNCHANGED dialog
    \/ \E value \in TagInputs : addTagClick(value) /\ UNCHANGED dialog
    \/ \E tag \in Range(tags) : removeTagClick(tag) /\ UNCHANGED dialog
    \/ clearAll /\ UNCHANGED dialog

SpecSettings == Init /\ [][NextSettings]_vars

(***************************************************************************)
(* SpecValidate: the blur listener of a field of the add form, which runs  *)
(* validateField on what the field holds.                                  *)
(***************************************************************************)
\* initForm: the blur listener of #form-<field>, input.value being `value`
fieldBlur(field, value) ==
    /\ ret' = Result("validateField", [field |-> field, value |-> value],
                     validateField(field, value), FALSE)
    /\ log' = <<>>
    /\ UNCHANGED <<tasks, settings, tags, listeners, storage, clock>>

TwoDigits(n) == <<DigitChar(n \div 10), DigitChar(n % 10)>>

\* years of four digits: those around 0100, century years that are and
\* are not leap years, a leap year and a common year
YearInputs ==
    { <<"0", "0", "9", "9">>, <<"0", "1", "0", "0">>, <<"1", "9", "0", "0">>,
      <<"2", "0", "0", "0">>, <<"2", "0", "2", "4">>, <<"2", "0", "2", "5">> }

\* the days around the ends of a month
DayInputs == {0, 1, 28, 29, 30, 31, 32}

\* what #form-date holds: every year-month-day with the month in 00..13 and
\* the day at an end of the month, and strings of another shape
DateInputs ==
    { y \o <<"-">> \o TwoDigits(m) \o <<"-">> \o TwoDigits(d) :
        y \in YearInputs, m \in 0..13, d \in DayInputs }
    \cup { <<>>, <<"2", "5", "-", "0", "1", "-", "0", "1">>,
           <<"2", "0", "2", "5", "-", "9", "-", "2", "9">>,
           <<"2", "0", "2", "5", "/", "0", "9", "/", "2", "9">>,
           Date_2025_02_28 \o <<" ">> }

\* what the other fields hold
FieldInputs ==
    [title |-> {<<"L", "a", "b">>, <<" ", "L", "a", "b">>, <<>>},
     duration |-> {<<"9", "0">>, <<"0", "0">>, <<"1", ".", "2", "5", "0">>},
     tag |-> {Str_SelfCare, <<"t", "a", "g", "-">>},
     notes |-> {<<>>, <<"x", " ">>},
     date |-> DateInputs]

NextValidate ==
    \/ \E field \in DOMAIN FieldInputs :
         \E value \in FieldInputs[field] : fieldBlur(field, value) /\ UNCHANGED dialog

SpecValidate == Init /\ [][NextValidate]_vars

(***************************************************************************)
(* state.js: getStats.  An instant is a count of milliseconds from         *)
(* 1970-01-01T00:00:00Z, as Date holds it.  The host's time zone is a      *)
(* fixed offset, local time minus UTC in milliseconds, with no daylight    *)
(* saving change in the days at hand.                                      *)
(***************************************************************************)
MsPerHour == 60 * 60 * 1000

MsPerDay == 24 * MsPerHour

EpochDate == [year |-> 1970, month |-> 1, date |-> 1]

\* the calendar day after c
NextDay(c) ==
    IF c.date < DaysInMonth(c.year, c.month) THEN [c EXCEPT !.date = c.date + 1]
    ELSE IF c.month < 12 THEN [c EXCEPT !.month = c.month + 1, !.date = 1]
    ELSE [year |-> c.year + 1, month |-> 1, date |-> 1]

\* the calendar day before c
PrevDay(c) ==
    IF c.date > 1 THEN [c EXCEPT !.date = c.date - 1]
    ELSE IF c.month > 1
      THEN [c EXCEPT !.month = c.month - 1, !.date = DaysInMonth(c.year, c.month - 1)]
    ELSE [year |-> c.year - 1, month |-> 12, date |-> 31]

\* the calendar day n days after c, before it when n is negative
RECURSIVE AddDays(_, _)
AddDays(c, n) ==
    IF n = 0 THEN c
    ELSE IF n > 0 THEN AddDays(NextDay(c), n - 1)
    ELSE AddDays(PrevDay(c), n + 1)

\* the calendar day, in UTC, of the instant t
UTCDate(t) == AddDays(EpochDate, t \div MsPerDay)

\* a year of the common era in four digits
FourDigits(n) ==
    LET d == ToDecimal(n) IN [i \in 1..(4 - Len(d)) |-> "0"] \o d

\* d.toISOString().split('T')[0]
ISODateString(t) ==
    LET c == UTCDate(t) IN
    FourDigits(c.year) \o <<"-">> \o TwoDigits(c.month) \o <<"-">> \o TwoDigits(c.date)

\* today = new Date(); today.setHours(0, 0, 0, 0): the instant of the last
\* local midnight
LocalMidnight(now, offset) == ((now + offset) \div MsPerDay) * MsPerDay - offset

\* d = new Date(today); d.setDate(d.getDate() - i)
DaysBefore(today, i) == today - i * MsPerDay

\* d.getDay(): 0 for Sunday; 1970-01-01 was a Thursday
GetDay(t, offset) == (((t + offset) \div MsPerDay) + 4) % 7

\* d.toLocaleDateString('en', { weekday: 'short' })
WeekdayShort(t, offset) ==
    << <<"S", "u", "n">>, <<"M", "o", "n">>, <<"T", "u", "e">>, <<"W", "e", "d">>,
       <<"T", "h", "u">>, <<"F", "r", "i">>, <<"S", "a", "t">> >>[GetDay(t, offset) + 1]

\* ts.reduce((sum, t) => sum + t.duration, 0)
RECURSIVE SumDuration(_)
SumDuration(ts) ==
    IF ts = <<>> THEN 0 ELSE Head(ts).duration + SumDuration(Tail(ts))

\* this.tasks.filter(t => t.dueDate === dateStr)
DueOn(ts, dateStr) == SelectSeq(ts, LAMBDA t : t.dueDate = dateStr)

\* the loop for (let i = 6; i >= 0; i--): entry k is pushed with i = 7 - k
Last7(ts, now, offset) ==
    [k \in 1..7 |->
        LET d == DaysBefore(LocalMidnight(now, offset), 7 - k)
            dateStr == ISODateString(d)
            dayTasks == DueOn(ts, dateStr)
        IN  [date |-> dateStr,
             label |-> WeekdayShort(d, offset),
             duration |-> SumDuration(dayTasks),
             count |-> Len(dayTasks)]]

\* the keys of tagCounts and tagDurations in the order of their insertion
RECURSIVE TagKeys(_)
TagKeys(ts) ==
    IF ts = <<>> THEN <<>>
    ELSE LET front == TagKeys(Front(ts))
             tag == ts[Len(ts)].tag
         IN  IF Includes(front, tag) THEN front ELSE Append(front, tag)

WithTag(ts, tag) == SelectSeq(ts, LAMBDA t : t.tag = tag)

\* tagCounts
TagCounts(ts) == [tag \in Range(TagKeys(ts)) |-> Len(WithTag(ts, tag))]

\* tagDurations
TagDurations(ts) == [tag \in Range(TagKeys(ts)) |-> SumDuration(WithTag(ts, tag))]

\* the character U+2014, written by its name
EmDash == "EM DASH"

\* Object.entries(tagCounts).sort((a, b) => b[1] - a[1])[0], then
\* topTag ? topTag[0] : EmDash: the sort is stable, so the first key by
\* insertion among those of the greatest count
TopTag(ts) ==
    LET keys == TagKeys(ts)
        counts == TagCounts(ts)
    IN  IF keys = <<>> THEN <<EmDash>>
        ELSE keys[CHOOSE i \in DOMAIN keys :
                    /\ \A j \in DOMAIN keys : counts[keys[j]] <= counts[keys[i]]
                    /\ \A j \in 1..(i - 1) : counts[keys[j]] < counts[keys[i]]]

\* weekStart.setDate(weekStart.getDate() - weekStart.getDay()), then the sum
\* over the tasks with dueDate >= weekStr, strings compared by code unit
WeeklyDuration(ts, now, offset) ==
    LET today == LocalMidnight(now, offset)
        weekStr == ISODateString(DaysBefore(today, GetDay(today, offset)))
    IN  SumDuration(SelectSeq(ts, LAMBDA t : ~StrLess(t.dueDate, weekStr)))

\* getStats(), called at the instant clock on a host of the given offset
getStats(offset) ==
    /\ ret' = Result("getStats", [now |-> clock, offset |-> offset],
                     [total |-> Len(tasks),
                      totalDuration |-> SumDuration(tasks),
                      topTag |-> TopTag(tasks),
                      tagCounts |-> TagCounts(tasks),
                      tagDurations |-> TagDurations(tasks),
                      last7 |-> Last7(tasks, clock, offset),
                      weeklyDuration |-> WeeklyDuration(tasks, clock, offset),
                      weeklyCap |-> settings.weeklyCap],
                     FALSE)
    /\ log' = <<>>
    /\ UNCHANGED <<tasks, settings, tags, listeners, storage, clock>>

(***************************************************************************)
(* SpecStats: the dashboard's statistics, over collections built by the    *)
(* add form, at instants of the first days of 1970 on hosts west of, at    *)
(* and east of Greenwich.                                                  *)
(***************************************************************************)
MaxDays == 2

\* six hours pass
SixHoursPass ==
    /\ clock + 6 * MsPerHour <= MaxDays * MsPerDay
    /\ clock' = clock + 6 * MsPerHour
    /\ UNCHANGED <<tasks, settings, tags, listeners, storage, ret, log>>

\* UTC-5, UTC and UTC+2
HostOffsets == {0 - 5 * MsPerHour, 0, 2 * MsPerHour}

Date_1969_12_31 == <<"1", "9", "6", "9", "-", "1", "2", "-", "3", "1">>
Date_1970_01_01 == <<"1", "9", "7", "0", "-", "0", "1", "-", "0", "1">>

StatsForms ==
    { [FormLab EXCEPT !.date = Date_1969_12_31],
      [FormLab EXCEPT !.date = Date_1970_01_01],
      [FormEssay EXCEPT !.date = Date_1970_01_01] }

NextStats ==
    \/ SixHoursPass /\ UNCHANGED dialog
    \/ \E data \in StatsForms : SubmitForm(data, <<"k", "3", "x", "9">>) /\ UNCHANGED dialog
    \/ \E offset \in HostOffsets : getStats(offset) /\ UNCHANGED dialog

SpecStats == Init /\ [][NextStats]_vars

(***************************************************************************)
(* SpecFileImport: the import of a file into a collection the add form     *)
(* has filled or not.                                                      *)
(***************************************************************************)
NextFileImport ==
    \/ Tick /\ UNCHANGED dialog
    \/ SubmitForm(FormLab, <<"k", "3", "x", "9">>) /\ UNCHANGED dialog
    \/ \E file \in ReadFiles : handleImport(file) /\ UNCHANGED dialog

SpecFileImport == Init /\ [][NextFileImport]_vars

(***************************************************************************)
(* SpecNotify: subscribers that come and go, one of which unsubscribes     *)
(* another while a notification is under way, around operations that       *)
(* notify.                                                                 *)
(***************************************************************************)
RoundSubscribers == {"render", "audit", "closer"}

NextNotify ==
    \/ \E fn \in RoundSubscribers : onChange(fn) /\ UNCHANGED dialog
    \/ \E fn \in RoundSubscribers : Unsubscribe(fn) /\ UNCHANGED dialog
    \/ \E updates \in SettingsArgs : updateSettings(updates) /\ UNCHANGED dialog
    \/ \E tag \in TagArgs : addTag(tag) /\ UNCHANGED dialog
    \/ \E tag \in TagArgs : removeTag(tag) /\ UNCHANGED dialog
    \/ clearAll /\ UNCHANGED dialog

SpecNotify == InitStore /\ [][NextNotify]_vars

(***************************************************************************)
(* ui.js: the confirm dialog (initConfirm, showConfirm) and the two        *)
(* handlers that ask it for a confirmation.  A callback is named by the    *)
(* store operation it calls and that operation's argument.  The buttons    *)
(* and the key listener of the dialog are reached only while the dialog    *)
(* is shown.                                                               *)
(***************************************************************************)
\* showConfirm(title, message, onConfirm)
showConfirm(onConfirm) ==
    /\ confirmCallback' = onConfirm
    /\ overlayHidden' = FALSE

\* bindRecordEvents: the click listener of the delete button of row `id`
deleteClick(id) ==
    /\ getTask(id)
    /\ showConfirm([op |-> "deleteTask", id |-> id])

\* initSettings: the click listener of #clear-data-btn
clearDataClick ==
    /\ NoStoreCall
    /\ showConfirm([op |-> "clearAll", id |-> <<>>])

\* confirmCallback(): the arrow function handed to showConfirm
InvokeCallback(callback) ==
    IF callback.op = "deleteTask" THEN deleteTask(callback.id) ELSE clearAll

\* mutation of confirmYesClick: the dialog stays open with its callback
confirmYesClick_StaysOpen ==
    /\ ~overlayHidden
    /\ IF confirmCallback # Null THEN InvokeCallback(confirmCallback) ELSE NoStoreCall
    /\ UNCHANGED <<confirmCallback, overlayHidden>>

\* initConfirm: the click listener of #confirm-yes; an exception thrown by
\* the callback leaves the listener before confirmCallback = null
confirmYesClick ==
    /\ ~overlayHidden
    /\ overlayHidden' = TRUE
    /\ IF confirmCallback # Null THEN InvokeCallback(confirmCallback) ELSE NoStoreCall
    /\ confirmCallback' = IF ret'.threw THEN confirmCallback ELSE Null

\* initConfirm: the click listener of #confirm-no
confirmNoClick ==
    /\ ~overlayHidden
    /\ overlayHidden' = TRUE
    /\ confirmCallback' = Null
    /\ NoStoreCall

\* initConfirm: the keydown listener of the dialog, e.key being 'Escape'
overlayEscape ==
    /\ ~overlayHidden
    /\ overlayHidden' = TRUE
    /\ confirmCallback' = Null
    /\ NoStoreCall

(***************************************************************************)
(* SpecConfirm: deletions and the clearing of all data as the page asks    *)
(* for them, through the confirm dialog, with the subscriber of app.js     *)
(* alone or followed by one that throws.                                   *)
(***************************************************************************)
InitConfirm ==
    \E ls \in { <<"render">>, <<"render", "faulty">> } : InitWith({FirstVisit}, ls)

NextConfirm ==
    \/ \E rand \in RandSuffixes : SubmitForm(FormLab, rand) /\ UNCHANGED dialog
    \/ \E id \in IdArgs \ {MissingId} : deleteClick(id)
    \/ clearDataClick
    \/ confirmYesClick
    \/ confirmNoClick
    \/ overlayEscape

SpecConfirm == InitConfirm /\ [][NextConfirm]_vars

(***************************************************************************)
(* Properties.                                                             *)
(***************************************************************************)
HasId(ts, id) == \E i \in DOMAIN ts : ts[i].id = id

MutatingOps ==
    {"addTask", "updateTask", "deleteTask", "replaceTasks", "updateSettings",
     "addTag", "removeTag", "clearAll"}

\* a date string YYYY-MM-DD that names a day of the calendar
IsRealDate(s) ==
    /\ Len(s) = 10
    /\ AllDigits(SubSeq(s, 1, 4)) /\ s[5] = "-"
    /\ AllDigits(SubSeq(s, 6, 7)) /\ s[8] = "-"
    /\ AllDigits(SubSeq(s, 9, 10))
    /\ DigitsVal(SubSeq(s, 6, 7)) \in 1..12
    /\ DigitsVal(SubSeq(s, 9, 10)) \in
           1..DaysInMonth(DigitsVal(SubSeq(s, 1, 4)), DigitsVal(SubSeq(s, 6, 7)))

\* C1: in every reachable state of the store, no two records of the
\* collection have the same id.
C1_UniqueIds ==
    \A i, j \in DOMAIN tasks : i # j => tasks[i].id # tasks[j].id

\* C2: when a notification invokes a subscriber that throws, every subscriber
\* registered after it is invoked for the same event too.
C2_LaterSubscribersRun ==
    \A i \in DOMAIN log :
        Throws(log[i].fn) =>
            \A j \in (i + 1)..Len(listeners) :
                j \in DOMAIN log /\ log[j].fn = listeners[j] /\ log[j].event = log[i].event

\* C3: updateTask(id, partialFields) on an existing record, whatever the
\* partial fields (an id key included), leaves the record's id as it was.
C3_UpdateKeepsId ==
    [][\A id \in IdArgs, updates \in UpdateArgs :
          (updateTask(id, updates) /\ FindIndex(tasks, id) # 0)
              => tasks'[FindIndex(tasks, id)].id = tasks[FindIndex(tasks, id)].id]_vars

\* C4: in every state reached through the UI's validated entry points (add
\* form, inline edit, file import, delete, clear), every record's dueDate
\* names a real calendar date.
C4_DueDatesReal ==
    \A i \in DOMAIN tasks : IsRealDate(tasks[i].dueDate)

\* C5: with a clock that never goes backwards, in every state reached by
\* addTask, updateTask and import, every record has updatedAt >= createdAt.
C5_UpdatedNotBeforeCreated ==
    \A i \in DOMAIN tasks :
        /\ IsIso(tasks[i].createdAt)
        /\ IsIso(tasks[i].updatedAt)
        /\ tasks[i].updatedAt.n >= tasks[i].createdAt.n

\* C6: after each mutating operation has returned, what the persistence layer
\* holds (as its load functions read it back) equals the in-memory records,
\* settings and tags.
C6_PersistedEqualsMemory ==
    (ret.op \in MutatingOps /\ ~ret.threw) =>
        /\ loadTasks(storage) = tasks
        /\ loadSettings(storage) = settings
        /\ loadTags(storage) = tags

NoEffect ==
    /\ ~ret'.threw
    /\ tasks' = tasks
    /\ storage' = storage
    /\ log' = <<>>

\* C7: for an id that is not in the collection, updateTask returns null,
\* deleteTask returns false and getTask returns null; none of them throws,
\* changes the collection or the persisted records, or notifies a subscriber.
C7_NotFoundIsNoOp ==
    [][\A id \in IdArgs :
          ~HasId(tasks, id) =>
              /\ \A updates \in UpdateArgs :
                     updateTask(id, updates) => (ret'.val = Null /\ NoEffect)
              /\ deleteTask(id) => (ret'.val = FALSE /\ NoEffect)
              /\ getTask(id) => (ret'.val = Null /\ NoEffect)]_vars

\* a not-found update has just been answered, with records in the collection
\* and a subscriber registered
C7_Witness ==
    /\ ret.op = "updateTask"
    /\ ~HasId(tasks, ret.id)
    /\ ret.val = Null
    /\ tasks # <<>>
    /\ listeners # <<>>

\* C8: deleteTask(id) of an id that is present leaves no record with that id
\* (getTask(id) is null), keeps every other record in the same relative order,
\* and an immediately repeated deleteTask(id) finds nothing to delete.
C8_DeleteRemovesId ==
    [][\A id \in IdArgs :
          (deleteTask(id) /\ HasId(tasks, id)) =>
              /\ ~HasId(tasks', id)
              /\ Find(tasks', id) = Null
              /\ tasks' = SelectSeq(tasks, LAMBDA t : t.id # id)
              /\ FindIndex(tasks', id) = 0]_vars

\* C9: a mutation that changes the store invokes every subscriber registered
\* at that moment exactly once, in registration order, with the store already
\* updated, before it returns.
C9_AllSubscribersNotified ==
    [][(<<tasks, settings, tags>>' # <<tasks, settings, tags>>) =>
          /\ Len(log') = Len(listeners)
          /\ \A i \in DOMAIN listeners :
                 /\ log'[i].fn = listeners[i]
                 /\ log'[i].seen = Snapshot(tasks', settings', tags')]_vars

\* C10: addTask grows the collection by exactly one record, placed at the
\* front with createdAt equal to updatedAt, and leaves the records that were
\* there unchanged and in the same order.
C10_AddTaskAtFront ==
    [][\A data \in FormInputs, rand \in RandSuffixes :
          addTask(data, rand) =>
              /\ Len(tasks') = Len(tasks) + 1
              /\ tasks'[1] = ret'.val
              /\ tasks'[1].createdAt = tasks'[1].updatedAt
              /\ Tail(tasks') = tasks]_vars

\* addTask has just put a record in front of one that was there
C10_Witness ==
    /\ ret.op = "addTask"
    /\ Len(tasks) >= 2
    /\ tasks[1] = ret.val

\* C11: sortTasks, for every field and direction (an unknown field included),
\* leaves the stored collection order, the settings, the tags and the
\* persisted data unchanged and notifies no subscriber.
C11_SortLeavesStore ==
    [][\A field \in SortFields, direction \in Directions :
          sortTasks(field, direction) =>
              /\ tasks' = tasks
              /\ settings' = settings
              /\ tags' = tags
              /\ storage' = storage
              /\ log' = <<>>
              /\ ~ret'.threw]_vars

\* a sort has just returned an order that is not the stored one
C11_Witness ==
    /\ ret.op = "sortTasks"
    /\ Len(tasks) >= 2
    /\ ret.val # tasks
    /\ listeners # <<>>

\* the order of the sort keys: titles without their case, dates as strings,
\* durations as numbers
KeyLess(a, b, field) ==
    CASE field = "title" -> StrLess(ToLowerCase(a.title), ToLowerCase(b.title))
      [] field = "date" -> StrLess(a.dueDate, b.dueDate)
      [] field = "duration" -> a.duration < b.duration

\* C12: for every field in {date, title, duration} and both directions,
\* sortTasks returns a permutation of the collection ordered by the key, in
\* which records with equal keys keep their original collection order.
C12_SortOrderedStable ==
    [][\A field \in {"date", "title", "duration"}, direction \in Directions :
          sortTasks(field, direction) =>
              \E p \in Permutations(DOMAIN tasks) :
                  /\ Len(ret'.val) = Len(tasks)
                  /\ \A i \in DOMAIN tasks : ret'.val[i] = tasks[p[i]]
                  /\ \A i, j \in DOMAIN tasks :
                         i < j =>
                             /\ IF direction = "asc"
                                  THEN ~KeyLess(tasks[p[j]], tasks[p[i]], field)
                                  ELSE ~KeyLess(tasks[p[i]], tasks[p[j]], field)
                             /\ (/\ ~KeyLess(tasks[p[i]], tasks[p[j]], field)
                                 /\ ~KeyLess(tasks[p[j]], tasks[p[i]], field))
                                    => p[i] < p[j]]_vars

\* a sort by title has just put a lower-case title before a capitalised one
\* that precedes it in the collection
C12_Witness ==
    /\ ret.op = "sortTasks"
    /\ ret.id.field = "title"
    /\ ret.id.direction = "asc"
    /\ Len(tasks) >= 2
    /\ ret.val # tasks
    /\ StrLess(ret.val[2].title, ret.val[1].title)

\* C13: for every collection, the sequence sortTasks('duration', 'desc')
\* returns is the exact reverse of the one sortTasks('duration', 'asc')
\* returns.
C13_DescIsReverseOfAsc ==
    Sorted(tasks, "duration", "desc") = Reverse(Sorted(tasks, "duration", "asc"))

\* the last operation is the view `op` called with these arguments
Rendered(op, field, direction, searchInput, caseSensitive) ==
    /\ ret.op = op
    /\ ret.id = [field |-> field, direction |-> direction,
                 searchInput |-> searchInput, caseSensitive |-> caseSensitive]

\* the collection in the order p
Permuted(ts, p) == [i \in DOMAIN ts |-> ts[p[i]]]

\* the trimmed query is compiled as a regular expression, and compiles
CompilesAsRegex(searchInput) ==
    /\ Trim(searchInput) # <<>>
    /\ ~TagFilterMatches(Trim(searchInput))
    /\ Trim(searchInput) \notin MalformedQueries

\* the record alone is tested positive by a regex fresh from the compiler
TestsAlone(task, searchInput, caseSensitive) ==
    Exec(RegExp(Trim(searchInput), IF caseSensitive THEN <<"g">> ELSE <<"g", "i">>),
         Searchable(task), 0).found

\* C14: for a successfully compiled regex query, whether a record is in
\* filterTasks' result depends only on that record and the query: in every
\* ordering of the input, the result holds exactly the records that test
\* positive on their own, whatever records were tested before them.
C14_MatchPerRecord ==
    \A searchInput \in SearchQueries, caseSensitive \in BOOLEAN :
        CompilesAsRegex(searchInput) =>
            \A p \in Permutations(DOMAIN tasks) :
                filterTasks(Permuted(tasks, p), searchInput, caseSensitive).filtered
                    = SelectSeq(Permuted(tasks, p),
                                LAMBDA t : TestsAlone(t, searchInput, caseSensitive))

\* a regex search has just kept two records one after the other
C14_Witness ==
    /\ ret.op = "renderRecords"
    /\ ret.val.regex # Null
    /\ Len(ret.val.filtered) >= 2

\* C15: when the query fails to compile as a regular expression, filterTasks
\* does not throw and returns a non-empty error, a null matcher, and filtered
\* equal to the input collection unchanged.
C15_FailOpen ==
    [][\A field \in SortFields, direction \in Directions,
          searchInput \in MalformedQueries, caseSensitive \in BOOLEAN :
          (/\ Rendered("renderRecords", field, direction, searchInput, caseSensitive)'
           /\ renderRecords(field, direction, searchInput, caseSensitive)) =>
              /\ ~ret'.threw
              /\ ret'.val.error # Null
              /\ ret'.val.error.message # ""
              /\ ret'.val.regex = Null
              /\ ret'.val.filtered = Sorted(tasks, field, direction)]_vars

\* a malformed query has just been answered over a collection with records
C15_Witness ==
    /\ ret.op = "renderRecords"
    /\ ret.id.searchInput \in MalformedQueries
    /\ ret.val.error # Null
    /\ ret.val.filtered # <<>>

\* a trimmed query of the form @tag:<name>, <name> one or more characters
HasTagForm(input) ==
    Len(input) > 5 /\ SubSeq(input, 1, 5) = <<"@", "t", "a", "g", ":">>

\* C16: for a trimmed query of the form @tag:<name>, filterTasks returns
\* exactly the records whose tag contains <name> ignoring case, in input
\* order, with matcher null and error null, whatever the caseSensitive flag.
C16_TagFilter ==
    [][\A field \in SortFields, direction \in Directions,
          searchInput \in SearchQueries, caseSensitive \in BOOLEAN :
          (/\ HasTagForm(Trim(searchInput))
           /\ Rendered("renderRecords", field, direction, searchInput, caseSensitive)'
           /\ renderRecords(field, direction, searchInput, caseSensitive)) =>
              /\ ret'.val.regex = Null
              /\ ret'.val.error = Null
              /\ ret'.val.filtered =
                     SelectSeq(Sorted(tasks, field, direction),
                               LAMBDA t : StrIncludes(ToLowerCase(t.tag),
                                              ToLowerCase(SubSeq(Trim(searchInput), 6,
                                                                 Len(Trim(searchInput))))))]_vars

HasPrefix(s, p) == Len(s) >= Len(p) /\ SubSeq(s, 1, Len(p)) = p

\* the output without its <mark> and </mark> markers
RECURSIVE StripMarks(_)
StripMarks(s) ==
    IF s = <<>> THEN <<>>
    ELSE IF HasPrefix(s, MarkOpen) THEN StripMarks(SubSeq(s, Len(MarkOpen) + 1, Len(s)))
    ELSE IF HasPrefix(s, MarkClose) THEN StripMarks(SubSeq(s, Len(MarkClose) + 1, Len(s)))
    ELSE <<Head(s)>> \o StripMarks(Tail(s))

\* no '<', '>', '"' or "'" in s, and every '&' opens one of the five entities
NothingRaw(s) ==
    \A i \in DOMAIN s :
        /\ s[i] \notin {"<", ">", "\"", "'"}
        /\ s[i] = "&" =>
               \E e \in { <<"&", "a", "m", "p", ";">>, <<"&", "l", "t", ";">>,
                          <<"&", "g", "t", ";">>, <<"&", "q", "u", "o", "t", ";">>,
                          <<"&", "#", "0", "3", "9", ";">> } :
                   HasPrefix(SubSeq(s, i, Len(s)), e)

HighlightedSafely(text, out) ==
    /\ StripMarks(out) = escapeHTML(text)
    /\ NothingRaw(StripMarks(out))

\* C17: for every text and every matcher, removing the inserted <mark> and
\* </mark> markers from highlight(text, matcher) yields exactly
\* escapeHTML(text), so that no raw '<', '>', '&', '"' or "'" of the text
\* reaches the output unescaped.
C17_HighlightEscapes ==
    [][\A i \in 1..Len(tasks) :
          renderTableRow(i) =>
              /\ HighlightedSafely(ret'.id.task.title, ret'.val.title)
              /\ HighlightedSafely(ret'.id.task.tag, ret'.val.tag)
              /\ HighlightedSafely(ret'.id.task.notes, ret'.val.notes)]_vars

\* a row has just been rendered whose title holds '&' and got a marker, and
\* whose notes hold '<'
C17_Witness ==
    /\ ret.op = "renderTableRow"
    /\ ret.id.regex # Null
    /\ "&" \in Range(ret.id.task.title)
    /\ ret.val.title # escapeHTML(ret.id.task.title)
    /\ "<" \in Range(ret.id.task.notes)

\* C18: validateImport returns a {valid, data, errors} result and never
\* throws, for every input: malformed JSON text, a non-array top-level value,
\* and arrays whose elements carry fields (notes, createdAt, updatedAt
\* included) of any JSON type.
C18_ImportNeverThrows ==
    ret.op = "validateImport" => ~ret.threw

\* the element passes the five field checks
PassesChecks(item) == item.isObject /\ ImportIssues(item) = <<>>

\* the positions from i on of the elements of items that pass the checks
\* (pass = TRUE) or fail them (pass = FALSE), in order
RECURSIVE Positions(_, _, _)
Positions(items, i, pass) ==
    IF i > Len(items) THEN <<>>
    ELSE (IF PassesChecks(items[i]) = pass THEN <<i>> ELSE <<>>)
           \o Positions(items, i + 1, pass)

\* C19: for every array input, validateImport decides each element
\* independently of the others: data holds, in input order, exactly the
\* elements that pass all five field checks; errors holds exactly one message
\* for each other element; and valid is true iff errors is empty.
C19_ImportPerElement ==
    (ret.op = "validateImport" /\ ret.id.wellFormed /\ ret.id.isArray) =>
        LET items == ret.id.items
            passed == Positions(items, 1, TRUE)
            failed == Positions(items, 1, FALSE)
        IN  /\ ~ret.threw
            /\ Len(ret.val.data) = Len(passed)
            /\ \A k \in DOMAIN passed : ret.val.data[k].id = items[passed[k]].id.s
            /\ Len(ret.val.errors) = Len(failed)
            /\ \A k \in DOMAIN failed : ret.val.errors[k].item = failed[k]
            /\ ret.val.valid = (ret.val.errors = <<>>)

\* C20: for every collection produced by store operations on validated input
\* (addTask / updateTask after validateForm succeeded),
\* validateImport(exportJSON(tasks)) returns valid = true, no errors, and data
\* equal to tasks record for record, in the same order.
C20_ExportRoundTrip ==
    ret.op = "exportAndValidate" =>
        /\ ~ret.threw
        /\ ret.val.valid
        /\ ret.val.errors = <<>>
        /\ ret.val.data = tasks

\* C21: in every state reached by addTag, removeTag and clearAll from the
\* default vocabulary, the tag vocabulary is not empty.
C21_VocabularyNonEmpty == tags # <<>>

\* C22: in every state reached through the settings page, updateSettings and
\* clearAll, weeklyCap is a non-negative whole number of minutes and
\* durationUnit is "minutes" or "hours".
C22_SettingsValid ==
    /\ DOMAIN settings = {"durationUnit", "weeklyCap"}
    /\ settings.weeklyCap >= 0
    /\ settings.weeklyCap % 100 = 0
    /\ settings.durationUnit \in {"minutes", "hours"}

NoDuplicates(tg) == \A i, j \in DOMAIN tg : tg[i] = tg[j] => i = j

\* C25: from the default vocabulary, no tag occurs twice in the vocabulary
\* before or after any addTag, removeTag or clearAll, and addTag of a tag that
\* is in the vocabulary leaves its content and order unchanged.
C25_NoDuplicateTags ==
    [][/\ NoDuplicates(tags) /\ NoDuplicates(tags')
       /\ \A value \in TagInputs :
            (ret'.op = "addTag" /\ addTag(Trim(value)) /\ Includes(tags, Trim(value)))
                => tags' = tags]_vars

\* addTag was called with a tag the vocabulary held already
C25_Witness ==
    /\ ret.op = "addTag"
    /\ Includes(tags, ret.id)
    /\ tags[Len(tags)] # ret.id

\* C24: validateField('date', s) is valid exactly when s is YYYY-MM-DD with a
\* month 01-12 and a day that exists in that month of that year, for every
\* year of four digits.
C24_DateValidIffReal ==
    (ret.op = "validateField" /\ ret.id.field = "date")
        => (ret.val <=> IsRealDate(ret.id.value))

\* the calendar day of the instant t on a host of the given offset
LocalDate(t, offset) == UTCDate(t + offset)

ISODate(c) ==
    FourDigits(c.year) \o <<"-">> \o TwoDigits(c.month) \o <<"-">> \o TwoDigits(c.date)

\* last7 is the seven days that end at the local day `today`, with the count
\* and the duration of the records due on each
IsTrendEndingAt(last7, today, ts) ==
    /\ Len(last7) = 7
    /\ \A k \in 1..7 :
         /\ last7[k].date = ISODate(AddDays(today, k - 7))
         /\ last7[k].count = Cardinality({i \in DOMAIN ts : ts[i].dueDate = last7[k].date})
         /\ last7[k].duration = SumDuration(DueOn(ts, last7[k].date))

\* C23: getStats().last7 has exactly 7 entries whose dates are consecutive
\* calendar days in increasing order, the last one today's local date whatever
\* the host's UTC offset, each with the count and duration of the records due
\* on its date.
C23_Last7EndsToday ==
    ret.op = "getStats"
        => IsTrendEndingAt(ret.val.last7, LocalDate(ret.id.now, ret.id.offset), tasks)

\* the records that the elements of a file passing the five checks stand for,
\* in the order of the file; none for a file that holds no array
Accepted(file, now) ==
    IF file.wellFormed /\ file.isArray
      THEN LET passed == Positions(file.items, 1, TRUE)
           IN  [k \in DOMAIN passed |-> NormalizeImport(file.items[passed[k]], now)]
    ELSE <<>>

\* C27: a file import replaces the whole collection with exactly the records
\* validateImport accepted when at least one element was accepted, also when
\* other elements were rejected, and leaves the collection and the persisted
\* records unchanged when no element was accepted.
C27_ImportReplacesOrKeeps ==
    [][\A file \in ReadFiles :
         handleImport(file) =>
            IF Accepted(file, clock) # <<>>
              THEN tasks' = Accepted(file, clock)
            ELSE tasks' = tasks /\ storage' = storage]_vars

\* the subscribers whose unsubscribe function was called before invocation
\* i of the round lg
UnsubscribedBefore(lg, i) == UNION {Unsubscribes(lg[j].fn) : j \in 1..(i - 1)}

\* C26: once the unsubscribe function that onChange(fn) returned has been
\* called, fn is not invoked again, also when another subscriber calls it in
\* the middle of a notification round, and the subscribers that remain keep
\* their registration order.
C26_UnsubscribedNotInvoked ==
    [][/\ \A i \in DOMAIN log' : log'[i].fn \notin UnsubscribedBefore(log', i)
       /\ \A fn \in RoundSubscribers :
            (Unsubscribe(fn) \/ fn \in UnsubscribedBefore(log', Len(log') + 1))
                => /\ ~Includes(listeners', fn)
                   /\ listeners' =
                        SelectSeq(listeners, LAMBDA l : ~(Unsubscribe(l)
                            \/ l \in UnsubscribedBefore(log', Len(log') + 1)))]_vars

\* C28: the page calls deleteTask or clearAll only on a press of the
\* confirm-yes button, with the callback of the showConfirm that asked for
\* it; a dismissal by No or Escape discards the pending callback; and a
\* callback that has run cannot run again: the dialog is closed, and it opens
\* again only by a new request, which runs nothing.
C28_ConfirmedOnly ==
    [][/\ ret'.op \in {"deleteTask", "clearAll"} =>
            /\ ~overlayHidden
            /\ confirmCallback = [op |-> ret'.op, id |-> ret'.id]
            /\ overlayHidden'
       /\ (confirmNoClick \/ overlayEscape) =>
            /\ confirmCallback' = Null
            /\ overlayHidden'
            /\ tasks' = tasks /\ settings' = settings /\ tags' = tags
       /\ (overlayHidden /\ ~overlayHidden') =>
            /\ confirmCallback' # Null
            /\ ret'.op \in {"getTask", "none"}]_vars

\* a deletion has run after its confirmation, and the dialog is closed with
\* no callback left
C28_Witness ==
    /\ ret.op = "deleteTask"
    /\ ret.val = TRUE
    /\ overlayHidden
    /\ confirmCallback = Null
    /\ Len(tasks) = 1

=============================================================================
